---------------------------- MODULE Spec2Model ----------------------------
(***************************************************************************)
(* Model of the invoice data processor (data_processor.py): decimal        *)
(* conversion of cells, proportional value distribution over blank-cell    *)
(* row groups, and the cumulative PO/Item aggregation maps.                *)
(*                                                                         *)
(* Decimal values are represented as integers counting quanta of           *)
(* DEFAULT_DIST_PRECISION (0.0001); Scale quanta make 1.  A number cell     *)
(* holds hi * 10^28 + n quanta, so that sums can leave the 28 significant  *)
(* digits of the decimal context.  The distributor is modelled for cells   *)
(* with hi = 0, where its arithmetic is exact and shares are exact         *)
(* quotients rounded half-up; the aggregators add with the rounding of     *)
(* the context.                                                            *)
(***************************************************************************)
EXTENDS Integers, Sequences, FiniteSets, Bags, TLC

\* ------------------------------------------------------------------------
\* Bounds of the model
\* ------------------------------------------------------------------------
MaxRows == 3        \* rows of a single-column distribution table
MaxMultiRows == 2   \* rows of a table with several distributed columns

\* 1 / DEFAULT_DIST_PRECISION: quanta per unit
Scale == 10000

\* ------------------------------------------------------------------------
\* Cells: None, a string (sequence of characters) or a number
\* ------------------------------------------------------------------------
NoneCell == [t |-> "none", s |-> <<>>, n |-> 0, hi |-> 0]

StrCell(chars) == [t |-> "str", s |-> chars, n |-> 0, hi |-> 0]

NumCell(q) == [t |-> "num", s |-> <<>>, n |-> q, hi |-> 0]

\* the number h * 10^28 + q quanta
BigCell(h, q) == [t |-> "num", s |-> <<>>, n |-> q, hi |-> h]

IsNone(c) == c.t = "none"

Digits == {"0", "1", "2", "3", "4", "5", "6", "7", "8", "9"}

DigitVal(ch) ==
    CASE ch = "0" -> 0 [] ch = "1" -> 1 [] ch = "2" -> 2 [] ch = "3" -> 3
      [] ch = "4" -> 4 [] ch = "5" -> 5 [] ch = "6" -> 6 [] ch = "7" -> 7
      [] ch = "8" -> 8 [] ch = "9" -> 9 [] OTHER -> 0

RECURSIVE LStrip(_)
LStrip(s) == IF s # <<>> /\ Head(s) = " " THEN LStrip(Tail(s)) ELSE s

RECURSIVE RStrip(_)
RStrip(s) ==
    IF s # <<>> /\ s[Len(s)] = " " THEN RStrip(SubSeq(s, 1, Len(s) - 1)) ELSE s

\* str.strip()
Strip(s) == RStrip(LStrip(s))

AllDigits(s) == \A k \in 1..Len(s) : s[k] \in Digits

RECURSIVE DigitsValue(_)
DigitsValue(s) ==
    IF s = <<>> THEN 0
    ELSE 10 * DigitsValue(SubSeq(s, 1, Len(s) - 1)) + DigitVal(s[Len(s)])

Pow10(k) == CASE k = 0 -> 1 [] k = 1 -> 10 [] k = 2 -> 100 [] k = 3 -> 1000
              [] OTHER -> 10000

DotPositions(s) == {k \in 1..Len(s) : s[k] = "."}

\* decimal.Decimal(text) for an unsigned literal "ddd" or "ddd.ddd" with at
\* most four fractional digits; any other text is an InvalidOperation.
UnsignedLiteral(s) ==
    LET dots == DotPositions(s)
    IN  IF dots = {}
        THEN IF s # <<>> /\ AllDigits(s)
             THEN NumCell(DigitsValue(s) * Scale) ELSE NoneCell
        ELSE IF Cardinality(dots) = 1
        THEN LET d == CHOOSE k \in dots : TRUE
                 ip == SubSeq(s, 1, d - 1)
                 fp == SubSeq(s, d + 1, Len(s))
             IN  IF AllDigits(ip) /\ AllDigits(fp) /\ Len(ip) + Len(fp) > 0
                    /\ Len(fp) <= 4
                 THEN NumCell(DigitsValue(ip) * Scale
                              + DigitsValue(fp) * Pow10(4 - Len(fp)))
                 ELSE NoneCell
        ELSE NoneCell

\* str.lower() of a character / re.IGNORECASE
LowerChar(ch) ==
    CASE ch = "P" -> "p" [] ch = "O" -> "o" [] ch = "X" -> "x"
      [] ch = "A" -> "a" [] ch = "K" -> "k" [] ch = "N" -> "n"
      [] ch = "T" -> "t" [] ch = "M" -> "m" [] ch = "U" -> "u"
      [] ch = "I" -> "i" [] ch = "E" -> "e" [] ch = "F" -> "f"
      [] ch = "S" -> "s" [] ch = "Y" -> "y"
      [] OTHER -> ch

Lower(str) == [k \in 1..Len(str) |-> LowerChar(str[k])]

\* Decimal('NaN'), Decimal('sNaN'), Decimal('Infinity') and
\* Decimal('-Infinity'): decimals that are not numbers
SpecialCell(name) == [t |-> "special", s |-> name, n |-> 0, hi |-> 0]

\* the names of the special values that decimal.Decimal accepts, in any case
SpecialLiteral(s) ==
    LET low == Lower(s)
    IN  IF low = <<"n", "a", "n">> THEN SpecialCell(<<"N", "a", "N">>)
        ELSE IF low = <<"s", "n", "a", "n">> THEN SpecialCell(<<"s", "N", "a", "N">>)
        ELSE IF low \in {<<"i", "n", "f">>,
                         <<"i", "n", "f", "i", "n", "i", "t", "y">>}
        THEN SpecialCell(<<"I", "n", "f", "i", "n", "i", "t", "y">>)
        ELSE NoneCell

\* ten to the power k, k >= 0
RECURSIVE Power10(_)
Power10(k) == IF k = 0 THEN 1 ELSE 10 * Power10(k - 1)

ExponentPositions(s) == {k \in 1..Len(s) : s[k] \in {"e", "E"}}

\* decimal.Decimal(text) for a literal "dddEkk", "dddE+kk" or "dddE-k": the
\* digits times ten to the exponent. A value of 10^24 or more is kept as a
\* multiple of 10^24 (BigCell); the literals of the model are below 200000
\* or multiples of 10^24 and have at most four fractional digits.
ExponentLiteral(s) ==
    LET marks == ExponentPositions(s)
    IN  IF Cardinality(marks) # 1 THEN NoneCell
        ELSE LET p == CHOOSE k \in marks : TRUE
                 coefficient == SubSeq(s, 1, p - 1)
                 signed == SubSeq(s, p + 1, Len(s))
                 negative == signed # <<>> /\ Head(signed) = "-"
                 exponent == IF signed # <<>> /\ Head(signed) \in {"+", "-"}
                             THEN Tail(signed) ELSE signed
             IN  IF coefficient = <<>> \/ exponent = <<>>
                    \/ ~AllDigits(coefficient) \/ ~AllDigits(exponent)
                 THEN NoneCell
                 ELSE IF negative
                 THEN NumCell(DigitsValue(coefficient)
                              * Power10(4 - DigitsValue(exponent)))
                 ELSE IF DigitsValue(exponent) >= 24
                 THEN BigCell(DigitsValue(coefficient)
                              * Power10(DigitsValue(exponent) - 24), 0)
                 ELSE NumCell(DigitsValue(coefficient)
                              * Power10(DigitsValue(exponent)) * Scale)

\* an unsigned literal or the name of a special value
UnsignedValue(s) ==
    IF ~IsNone(UnsignedLiteral(s)) THEN UnsignedLiteral(s)
    ELSE IF ~IsNone(ExponentLiteral(s)) THEN ExponentLiteral(s)
    ELSE SpecialLiteral(s)

\* decimal.Decimal(value_str) inside the try block: a decimal or, on
\* InvalidOperation, None
ParseDecimal(s) ==
    IF s # <<>> /\ Head(s) = "-"
    THEN LET u == UnsignedValue(Tail(s))
         IN  IF IsNone(u) THEN NoneCell
             ELSE IF u.t = "special" THEN SpecialCell(<<"-">> \o u.s)
             ELSE NumCell(0 - u.n)
    ELSE IF s # <<>> /\ Head(s) = "+" THEN UnsignedValue(Tail(s))
    ELSE UnsignedValue(s)

\* a Python int (a "num" cell is a decimal.Decimal for _convert_to_decimal)
IntCell(k) == [t |-> "int", s |-> <<>>, n |-> k * Scale, hi |-> 0]

\* str(n) for an int n >= 0
RECURSIVE NatStr(_)
NatStr(n) ==
    LET d == <<"0", "1", "2", "3", "4", "5", "6", "7", "8", "9">>[(n % 10) + 1]
    IN  IF n < 10 THEN <<d>> ELSE NatStr(n \div 10) \o <<d>>

\* str(v) for a number of a key: an int prints its digits
IntStr(v) ==
    IF v.n < 0 THEN <<"-">> \o NatStr((0 - v.n) \div Scale)
    ELSE NatStr(v.n \div Scale)

\* _convert_to_decimal
ConvertToDecimal(value) ==
    IF value.t = "num" THEN value
    ELSE IF value.t = "none" THEN NoneCell
    ELSE LET value_str == Strip(IF value.t = "str" THEN value.s
                                ELSE IntStr(value))
         IN  IF value_str = <<>> THEN NoneCell ELSE ParseDecimal(value_str)

ConvertList(vals) == [k \in 1..Len(vals) |-> ConvertToDecimal(vals[k])]

\* ------------------------------------------------------------------------
\* State
\* ------------------------------------------------------------------------
VARIABLES
    raw_data,                     \* the table: column name -> list of cells
    columns_to_distribute,        \* argument of distribute_values
    input_data,                   \* the table as it was when the call began
    pc,                           \* position inside distribute_values
    calls,                        \* number of calls of distribute_values
    valid_columns_to_distribute,
    basis_values_dec,
    col_pos,                      \* position of the for loop over columns
    current_col_values_dec,
    processed_col_values,
    i,                            \* main loop index (1-based)
    j,                            \* lookahead index (1-based)
    distribution_rows_indices,
    use_custom_aggregation,               \* the aggregation strategy of the run
    global_standard_aggregation_results,  \* (po, item, price) -> sums
    global_custom_aggregation_results,    \* (po, item) -> sums
    processed_data,                       \* the table of the latest aggregate call
    folded,                               \* bag of the tables folded so far
    run_pc,                       \* position inside run_invoice_automation
    cfg,                          \* the settings of config.py that the run reads
    input_filename,
    aggregation_mode_used,
    sheet,                        \* the worksheet and what the parser finds in it
    header_rows,                  \* what find_all_header_rows returned
    column_mapping,               \* what map_columns_to_headers returned
    all_tables_data,              \* the extracted tables, in extraction order
    table_index,                  \* position of the loop over the tables
    data_after_cbm,
    processed_tables,             \* table index -> stored table
    key_order,                    \* the keys of the run's map in insertion order
    global_fob_compounded_result,
    fob_runs,                     \* number of calls of perform_fob_compounding
    fob_pc,                       \* position of a direct call of the compounder
    initial_results,              \* argument: the map as its list of items
    aggregation_mode,             \* argument of perform_fob_compounding
    fob_result,                   \* what perform_fob_compounding returned
    items,                        \* argument of format_chunks
    chunk_size,                   \* argument of format_chunks
    formatted,                    \* what format_chunks returned
    call_pc,                      \* the function called on its own, or "returned"
    call_args,                    \* its arguments
    call_result                   \* what it returned

distVars == <<raw_data, columns_to_distribute, input_data, pc, calls,
              valid_columns_to_distribute, basis_values_dec, col_pos,
              current_col_values_dec, processed_col_values, i, j,
              distribution_rows_indices>>

aggVars == <<use_custom_aggregation, global_standard_aggregation_results,
             global_custom_aggregation_results, processed_data, folded>>

runVars == <<run_pc, cfg, input_filename, aggregation_mode_used,
             sheet, header_rows, column_mapping, all_tables_data, table_index,
             data_after_cbm, processed_tables, key_order,
             global_fob_compounded_result, fob_runs>>

fobVars == <<fob_pc, initial_results, aggregation_mode, fob_result, items,
             chunk_size, formatted>>

callVars == <<call_pc, call_args, call_result>>

vars == <<distVars, aggVars, runVars, fobVars, callVars>>

\* config.DISTRIBUTION_BASIS_COLUMN
basis_column == "pcs"

\* ------------------------------------------------------------------------
\* distribute_values: helpers
\* ------------------------------------------------------------------------
\* "is not None and != Decimal(0)"
IsNonZero(c) == c.t = "num" /\ c.n # 0

\* a lookahead that never stops at a later value
LookaheadToEnd(vals, k) == Len(vals) + 1

\* the lookahead loop: first index at or after k whose original value is
\* non-empty and non-zero, or num_rows + 1
RECURSIVE LookaheadEnd(_, _)
LookaheadEnd(vals, k) ==
    IF k > Len(vals) \/ IsNonZero(vals[k]) THEN k ELSE LookaheadEnd(vals, k + 1)

\* rows appended to distribution_rows_indices by a lookahead from row r
LookaheadRows(r, jEnd) == [k \in 1..(jEnd - r - 1) |-> r + k]

\* "basis_val is not None and basis_val > 0"
PositiveBasis(b) == b.t = "num" /\ b.n > 0

IndicesWithValidBasis(block, basis) ==
    SelectSeq(block, LAMBDA k : PositiveBasis(basis[k]))

RECURSIVE TotalBasis(_, _)
TotalBasis(idx, basis) ==
    IF idx = <<>> THEN 0 ELSE basis[Head(idx)].n + TotalBasis(Tail(idx), basis)

RECURSIVE GCD(_, _)
GCD(a, b) == IF b = 0 THEN a ELSE GCD(b, a % b)

\* rounding=ROUND_UP in place of ROUND_HALF_UP
RoundUp(num, den) ==
    IF num >= 0 THEN (num + den - 1) \div den
    ELSE 0 - (((0 - num) + den - 1) \div den)

\* quantize(..., rounding=ROUND_HALF_UP) of the quotient num / den, den > 0
RoundHalfUp(num, den) ==
    IF num >= 0 THEN (2 * num + den) \div (2 * den)
    ELSE 0 - ((2 * (0 - num) + den) \div (2 * den))

\* the share truncated (ROUND_DOWN) instead of rounded half-up
TruncatedValue(current_val, basis_val, total) ==
    LET g == GCD(basis_val, total)
        num == current_val * (basis_val \div g)
        den == total \div g
    IN  IF num >= 0 THEN num \div den ELSE 0 - ((0 - num) \div den)

\* proportion = basis_val / total; (current_val_dec * proportion).quantize(...)
DistributedValue(current_val, basis_val, total) ==
    LET g == GCD(basis_val, total)
    IN  RoundHalfUp(current_val * (basis_val \div g), total \div g)

\* "for k in indices_with_valid_basis: processed_col_values[k] = ..."
RECURSIVE AssignShares(_, _, _, _, _)
AssignShares(processed, idx, current_val, basis, total) ==
    IF idx = <<>> THEN processed
    ELSE AssignShares(
             [processed EXCEPT ![Head(idx)] =
                  NumCell(DistributedValue(current_val, basis[Head(idx)].n, total))],
             Tail(idx), current_val, basis, total)

\* the zero assignment left out
ZeroFillSkipped(processed, idx) == processed

\* "if processed_col_values[k] is None: processed_col_values[k] = Decimal(0)"
\* for every k of idx
ZeroFill(processed, idx) ==
    [k \in 1..Len(processed) |->
        IF (\E p \in 1..Len(idx) : idx[p] = k) /\ IsNone(processed[k])
        THEN NumCell(0) ELSE processed[k]]

\* rows of the block left out of indices_with_valid_basis
NotValid(block, valid) ==
    SelectSeq(block, LAMBDA k : \A p \in 1..Len(valid) : valid[p] # k)

\* the branch "if total_basis_in_block > 0 and indices_with_valid_basis"
DistributeBlock(processed, block, current_val, basis) ==
    LET valid == IndicesWithValidBasis(block, basis)
        total == TotalBasis(valid, basis)
    IN  ZeroFill(AssignShares(processed, valid, current_val, basis, total),
                 NotValid(block, valid))

\* the continuation rows of an undistributable block left unassigned
KeepCarrierOnly(processed, rows) == processed

\* the branch "else: # Cannot distribute"
KeepCarrier(processed, rows) == ZeroFill(processed, rows)

CanDistribute(block, basis) ==
    LET valid == IndicesWithValidBasis(block, basis)
    IN  TotalBasis(valid, basis) > 0 /\ valid # <<>>

\* "i += 1" after a block instead of "i = j"
NextIndexByOne(r, jEnd) == r + 1

\* where the main loop continues after a carrier row r whose lookahead
\* ended at jEnd
NextIndex(r, jEnd) == IF jEnd - r - 1 > 0 THEN jEnd ELSE r + 1

\* the main loop "while i < num_rows" run from row r to the end of the column
RECURSIVE MainLoop(_, _, _, _)
MainLoop(processed, vals, basis, r) ==
    IF r > Len(vals) THEN processed
    ELSE IF IsNonZero(vals[r])
    THEN LET stored == [processed EXCEPT ![r] = vals[r]]
             jEnd == LookaheadEnd(vals, r + 1)
             rows == LookaheadRows(r, jEnd)
             block_indices == <<r>> \o rows
         IN  MainLoop(IF rows = <<>> THEN stored
                      ELSE IF CanDistribute(block_indices, basis)
                      THEN DistributeBlock(stored, block_indices, vals[r].n, basis)
                      ELSE KeepCarrier(stored, rows),
                      vals, basis, NextIndex(r, jEnd))
    ELSE MainLoop(ZeroFill(processed, <<r>>), vals, basis, r + 1)

\* the list stored for one column: lines 239-373 applied to its cells
DistributeColumn(cells, basis) ==
    MainLoop([k \in 1..Len(cells) |-> NoneCell], ConvertList(cells), basis, 1)

\* ------------------------------------------------------------------------
\* Inputs of distribute_values
\* ------------------------------------------------------------------------
TargetCells == {NoneCell, NumCell(0), NumCell(1), NumCell(3)}

BasisCells == {NoneCell, NumCell(0 - 1), NumCell(1), NumCell(5)}

\* tables of n rows with the basis column and one target column
SingleTables(n) ==
    {[pcs |-> p, net |-> t] : p \in [1..n -> BasisCells], t \in [1..n -> TargetCells]}

\* pcs=[10,5,None], net=[150,None,None]
ExampleTable ==
    [pcs |-> <<NumCell(10 * Scale), NumCell(5 * Scale), NoneCell>>,
     net |-> <<NumCell(150 * Scale), NoneCell, NoneCell>>]

MultiBasisCells == {NumCell(1), NumCell(5), StrCell(<<"x">>)}

MultiTargetCells == {StrCell(<<" ">>), NumCell(0 - 3), StrCell(<<" ", "2">>)}

\* a third column: a carrier followed by blanks, of any length up to m
GrossColumn(m) == [k \in 1..m |-> IF k = 1 THEN NumCell(1) ELSE NoneCell]

\* tables of n rows with up to three columns, whose "gross" column may be
\* absent or of another length than the basis column
MultiTables(n) ==
    UNION {{[pcs |-> p, net |-> t],
            [pcs |-> p, net |-> t, gross |-> GrossColumn(n)],
            [pcs |-> p, net |-> t, gross |-> GrossColumn(n + 1)]} :
                p \in [1..n -> MultiBasisCells], t \in [1..n -> MultiTargetCells]}

\* a table without the basis column, and the empty dictionary
BrokenTables == {[net |-> <<NumCell(3), NoneCell>>], <<>>}

ColLists == {<<>>, <<"net">>, <<"gross", "net">>, <<"net", "gross">>,
             <<"pcs", "net">>, <<"gross">>}

\* ------------------------------------------------------------------------
\* distribute_values: the call, step by step
\* ------------------------------------------------------------------------
NumRows == Len(basis_values_dec)

ColName == valid_columns_to_distribute[col_pos]

\* no aggregation has taken place
AggIdle ==
    /\ use_custom_aggregation = FALSE
    /\ global_standard_aggregation_results = <<>>
    /\ global_custom_aggregation_results = <<>>
    /\ processed_data = <<>>
    /\ folded = <<>>

\* no run of the pipeline is under way
RunIdle ==
    /\ run_pc = "idle"
    /\ cfg = <<>>
    /\ input_filename = <<>>
    /\ aggregation_mode_used = "standard"
    /\ sheet = "none"
    /\ header_rows = <<>>
    /\ column_mapping = {}
    /\ all_tables_data = <<>>
    /\ table_index = 0
    /\ data_after_cbm = <<>>
    /\ processed_tables = <<>>
    /\ key_order = <<>>
    /\ global_fob_compounded_result = <<>>
    /\ fob_runs = 0

\* no function is called on its own
CallIdle ==
    /\ call_pc = "idle"
    /\ call_args = <<>>
    /\ call_result = <<>>

\* the compounder is not called on its own
FobIdle ==
    /\ fob_pc = "idle"
    /\ initial_results = <<>>
    /\ aggregation_mode = "standard"
    /\ fob_result = <<>>
    /\ items = <<>>
    /\ chunk_size = 0
    /\ formatted = <<>>

InitDist ==
    /\ CallIdle
    /\ \/ /\ \E n \in 1..MaxRows : raw_data \in SingleTables(n)
          /\ columns_to_distribute = <<"net">>
       \/ /\ raw_data = ExampleTable
          /\ columns_to_distribute = <<"net">>
       \/ /\ \E n \in 0..MaxMultiRows : raw_data \in MultiTables(n)
          /\ columns_to_distribute \in ColLists
       \/ /\ raw_data \in BrokenTables
          /\ columns_to_distribute \in ColLists
    /\ input_data = raw_data
    /\ pc = "validate"
    /\ calls = 1
    /\ valid_columns_to_distribute = <<>>
    /\ basis_values_dec = <<>>
    /\ col_pos = 0
    /\ current_col_values_dec = <<>>
    /\ processed_col_values = <<>>
    /\ i = 0
    /\ j = 0
    /\ distribution_rows_indices = <<>>
    /\ AggIdle
    /\ RunIdle
    /\ FobIdle

\* the early returns of the input validation
ValidateReturn ==
    /\ pc = "validate"
    /\ \/ DOMAIN raw_data = {}
       \/ /\ basis_column \in DOMAIN raw_data
          /\ \/ SelectSeq(columns_to_distribute,
                          LAMBDA c : c \in DOMAIN raw_data) = <<>>
             \/ Len(raw_data[basis_column]) = 0
    /\ pc' = "done"
    /\ UNCHANGED <<raw_data, columns_to_distribute, input_data, calls,
                   valid_columns_to_distribute, basis_values_dec, col_pos,
                   current_col_values_dec, processed_col_values, i, j,
                   distribution_rows_indices>>
    /\ UNCHANGED <<aggVars, runVars, fobVars, callVars>>

\* raise ProcessingError: the basis column is not in the table
ValidateRaise ==
    /\ pc = "validate"
    /\ DOMAIN raw_data # {}
    /\ basis_column \notin DOMAIN raw_data
    /\ pc' = "raised"
    /\ UNCHANGED <<raw_data, columns_to_distribute, input_data, calls,
                   valid_columns_to_distribute, basis_values_dec, col_pos,
                   current_col_values_dec, processed_col_values, i, j,
                   distribution_rows_indices>>
    /\ UNCHANGED <<aggVars, runVars, fobVars, callVars>>

\* the list of columns not consulted: every column of the table is taken
ValidateOkAllColumns ==
    /\ pc = "validate"
    /\ basis_column \in DOMAIN raw_data
    /\ LET valid == SelectSeq(columns_to_distribute,
                              LAMBDA c : c \in DOMAIN raw_data)
           every == SelectSeq(<<"pcs", "net", "gross">>,
                              LAMBDA c : c \in DOMAIN raw_data)
       IN  /\ valid # <<>>
           /\ Len(raw_data[basis_column]) # 0
           /\ valid_columns_to_distribute' = every
    /\ basis_values_dec' = ConvertList(raw_data[basis_column])
    /\ col_pos' = 1
    /\ pc' = "column"
    /\ UNCHANGED <<raw_data, columns_to_distribute, input_data, calls,
                   current_col_values_dec, processed_col_values, i, j,
                   distribution_rows_indices>>
    /\ UNCHANGED <<aggVars, runVars, fobVars, callVars>>

\* validation passed: the listed columns that exist, the converted basis
ValidateOk ==
    /\ pc = "validate"
    /\ basis_column \in DOMAIN raw_data
    /\ LET valid == SelectSeq(columns_to_distribute,
                              LAMBDA c : c \in DOMAIN raw_data)
       IN  /\ valid # <<>>
           /\ Len(raw_data[basis_column]) # 0
           /\ valid_columns_to_distribute' = valid
    /\ basis_values_dec' = ConvertList(raw_data[basis_column])
    /\ col_pos' = 1
    /\ pc' = "column"
    /\ UNCHANGED <<raw_data, columns_to_distribute, input_data, calls,
                   current_col_values_dec, processed_col_values, i, j,
                   distribution_rows_indices>>
    /\ UNCHANGED <<aggVars, runVars, fobVars, callVars>>

\* row count mismatch ending the whole call instead of skipping the column
SkipColumnReturns ==
    /\ pc = "column"
    /\ col_pos <= Len(valid_columns_to_distribute)
    /\ Len(raw_data[ColName]) # NumRows
    /\ pc' = "done"
    /\ UNCHANGED <<raw_data, columns_to_distribute, input_data, calls,
                   valid_columns_to_distribute, basis_values_dec, col_pos,
                   current_col_values_dec, processed_col_values, i, j,
                   distribution_rows_indices>>
    /\ UNCHANGED <<aggVars, runVars, fobVars, callVars>>

\* "for col_name in valid_columns_to_distribute", row count mismatch: continue
SkipColumn ==
    /\ pc = "column"
    /\ col_pos <= Len(valid_columns_to_distribute)
    /\ Len(raw_data[ColName]) # NumRows
    /\ col_pos' = col_pos + 1
    /\ UNCHANGED <<raw_data, columns_to_distribute, input_data, pc, calls,
                   valid_columns_to_distribute, basis_values_dec,
                   current_col_values_dec, processed_col_values, i, j,
                   distribution_rows_indices>>
    /\ UNCHANGED <<aggVars, runVars, fobVars, callVars>>

\* the column is converted and the main loop starts at the first row
BeginColumn ==
    /\ pc = "column"
    /\ col_pos <= Len(valid_columns_to_distribute)
    /\ Len(raw_data[ColName]) = NumRows
    /\ current_col_values_dec' = ConvertList(raw_data[ColName])
    /\ processed_col_values' = [k \in 1..NumRows |-> NoneCell]
    /\ i' = 1
    /\ pc' = "scan"
    /\ UNCHANGED <<raw_data, columns_to_distribute, input_data, calls,
                   valid_columns_to_distribute, basis_values_dec, col_pos, j,
                   distribution_rows_indices>>
    /\ UNCHANGED <<aggVars, runVars, fobVars, callVars>>

\* one iteration of the main loop on a non-zero value (Case 1)
ScanCarrier ==
    /\ pc = "scan"
    /\ i <= NumRows
    /\ IsNonZero(current_col_values_dec[i])
    /\ LET current_val_dec == current_col_values_dec[i]
           stored == [processed_col_values EXCEPT ![i] = current_val_dec]
           jEnd == LookaheadEnd(current_col_values_dec, i + 1)
           rows == LookaheadRows(i, jEnd)
           block_indices == <<i>> \o rows
       IN  /\ j' = jEnd
           /\ distribution_rows_indices' = rows
           /\ i' = NextIndex(i, jEnd)
           /\ \/ /\ rows # <<>>
                 /\ CanDistribute(block_indices, basis_values_dec)
                 /\ processed_col_values' =
                        DistributeBlock(stored, block_indices,
                                        current_val_dec.n, basis_values_dec)
              \/ /\ rows # <<>>
                 /\ ~CanDistribute(block_indices, basis_values_dec)
                 /\ processed_col_values' = KeepCarrier(stored, rows)
              \/ /\ rows = <<>>
                 /\ processed_col_values' = stored
    /\ UNCHANGED <<raw_data, columns_to_distribute, input_data, pc, calls,
                   valid_columns_to_distribute, basis_values_dec, col_pos,
                   current_col_values_dec>>
    /\ UNCHANGED <<aggVars, runVars, fobVars, callVars>>

\* one iteration of the main loop on a None or zero value (Case 2)
ScanBlank ==
    /\ pc = "scan"
    /\ i <= NumRows
    /\ ~IsNonZero(current_col_values_dec[i])
    /\ processed_col_values' = ZeroFill(processed_col_values, <<i>>)
    /\ i' = i + 1
    /\ UNCHANGED <<raw_data, columns_to_distribute, input_data, pc, calls,
                   valid_columns_to_distribute, basis_values_dec, col_pos,
                   current_col_values_dec, j, distribution_rows_indices>>
    /\ UNCHANGED <<aggVars, runVars, fobVars, callVars>>

\* end of the main loop: processed_data[col_name] = processed_col_values
EndColumn ==
    /\ pc = "scan"
    /\ i > NumRows
    /\ raw_data' = [raw_data EXCEPT ![ColName] = processed_col_values]
    /\ col_pos' = col_pos + 1
    /\ pc' = "column"
    /\ UNCHANGED <<columns_to_distribute, input_data, calls,
                   valid_columns_to_distribute, basis_values_dec,
                   current_col_values_dec, processed_col_values, i, j,
                   distribution_rows_indices>>
    /\ UNCHANGED <<aggVars, runVars, fobVars, callVars>>

\* all columns done: return processed_data
Return ==
    /\ pc = "column"
    /\ col_pos > Len(valid_columns_to_distribute)
    /\ pc' = "done"
    /\ UNCHANGED <<raw_data, columns_to_distribute, input_data, calls,
                   valid_columns_to_distribute, basis_values_dec, col_pos,
                   current_col_values_dec, processed_col_values, i, j,
                   distribution_rows_indices>>
    /\ UNCHANGED <<aggVars, runVars, fobVars, callVars>>

\* the caller applies distribute_values a second time, to the table the
\* first call returned, with the same column list and basis column
CallAgain ==
    /\ pc = "done"
    /\ calls = 1
    /\ calls' = calls + 1
    /\ input_data' = raw_data
    /\ pc' = "validate"
    /\ UNCHANGED <<raw_data, columns_to_distribute,
                   valid_columns_to_distribute, basis_values_dec, col_pos,
                   current_col_values_dec, processed_col_values, i, j,
                   distribution_rows_indices>>
    /\ UNCHANGED <<aggVars, runVars, fobVars, callVars>>

NextDist ==
    \/ ValidateReturn
    \/ ValidateRaise
    \/ ValidateOk
    \/ SkipColumn
    \/ BeginColumn
    \/ ScanCarrier
    \/ ScanBlank
    \/ EndColumn
    \/ Return
    \/ CallAgain

SpecDist == InitDist /\ [][NextDist]_vars

\* ------------------------------------------------------------------------
\* Properties of distribute_values
\* ------------------------------------------------------------------------
Range(f) == {f[x] : x \in DOMAIN f}

Abs(x) == IF x < 0 THEN 0 - x ELSE x

\* the call under way passed validation and reached the column loop
CallDistributes ==
    /\ basis_column \in DOMAIN input_data
    /\ Len(input_data[basis_column]) > 0

\* the columns the call processes: listed, present, as long as the basis
ProcessedColumns ==
    IF CallDistributes
    THEN {c \in Range(columns_to_distribute) \cap DOMAIN input_data :
             Len(input_data[c]) = Len(input_data[basis_column])}
    ELSE {}

\* the listed columns the call skips for their length
MismatchedColumns ==
    IF CallDistributes
    THEN {c \in Range(columns_to_distribute) \cap DOMAIN input_data :
             Len(input_data[c]) # Len(input_data[basis_column])}
    ELSE {}

InCol(c) == ConvertList(input_data[c])

InBasis == ConvertList(input_data[basis_column])

\* rows of c that carry a value and are followed by a blank or zero row
Carriers(c) ==
    {r \in 1..(Len(input_data[c]) - 1) :
        IsNonZero(InCol(c)[r]) /\ ~IsNonZero(InCol(c)[r + 1])}

\* the first row after r with a non-blank, non-zero value, or the row count
\* plus one
BlockEnd(c, r) ==
    LET later == {k \in (r + 1)..Len(input_data[c]) : IsNonZero(InCol(c)[k])}
    IN  IF later = {} THEN Len(input_data[c]) + 1
        ELSE CHOOSE k \in later : \A m \in later : k <= m

BlockOf(c, r) == r..(BlockEnd(c, r) - 1)

PositiveRows(c, r) == {k \in BlockOf(c, r) : PositiveBasis(InBasis[k])}

RECURSIVE SumCells(_, _)
SumCells(rows, cells) ==
    IF rows = {} THEN 0
    ELSE LET k == CHOOSE x \in rows : TRUE
         IN  cells[k].n + SumCells(rows \ {k}, cells)

TotalPositive(c, r) == SumCells(PositiveRows(c, r), InBasis)

\* carriers whose block has a positive total basis
DistributedCarriers(c) == {r \in Carriers(c) : TotalPositive(c, r) > 0}

\* q is num / den (den > 0) rounded half-up to an integer
IsHalfUp(q, num, den) ==
    /\ (q >= 0 /\ num >= 0) \/ (q <= 0 /\ num <= 0)
    /\ 2 * den * Abs(q) <= 2 * Abs(num) + den
    /\ 2 * Abs(num) + den < 2 * den * (Abs(q) + 1)

NoZeroAfterValue(cells) ==
    \A k \in 1..Len(cells) : \A m \in 1..(k - 1) :
        IsNonZero(ConvertToDecimal(cells[m])) => IsNonZero(ConvertToDecimal(cells[k]))

\* C2 as stated: a second application leaves every value of every
\* distributed column unchanged.
C2_Idempotent ==
    (pc = "done" /\ calls = 2) =>
        \A c \in ProcessedColumns : \A k \in 1..Len(raw_data[c]) :
            raw_data[c][k].n = input_data[c][k].n

\* C2 amended: a second application leaves a distributed column unchanged
\* when the first output has no zero after a non-zero row.
C2_IdempotentWithoutZeros ==
    (pc = "done" /\ calls = 2) =>
        \A c \in ProcessedColumns :
            NoZeroAfterValue(input_data[c]) => raw_data[c] = input_data[c]

\* a second application over an output with several one-row groups
C2_Witness ==
    /\ pc = "done"
    /\ calls = 2
    /\ \E c \in ProcessedColumns :
          /\ NoZeroAfterValue(input_data[c])
          /\ Cardinality({k \in 1..Len(input_data[c]) :
                             IsNonZero(input_data[c][k])}) >= 2
          /\ raw_data[c] = input_data[c]

\* C3 as stated: in a distributed block every row without positive basis,
\* the carrier included, ends with output zero.
C3_NonPositiveBasisGetsZero ==
    pc = "done" =>
        \A c \in ProcessedColumns : \A r \in DistributedCarriers(c) :
            \A k \in BlockOf(c, r) \ PositiveRows(c, r) :
                raw_data[c][k] = NumCell(0)

C5_NoBasisKeepsCarrier ==
    pc \in {"done", "raised"} =>
        /\ pc = "raised" => ~CallDistributes
        /\ \A c \in ProcessedColumns : \A r \in Carriers(c) :
              TotalPositive(c, r) = 0 =>
                  /\ raw_data[c][r] = InCol(c)[r]
                  /\ \A k \in BlockOf(c, r) \ {r} : raw_data[c][k] = NumCell(0)

C5_Witness ==
    /\ pc = "done"
    /\ \E c \in ProcessedColumns : \E r \in Carriers(c) :
          /\ TotalPositive(c, r) = 0
          /\ Cardinality(BlockOf(c, r)) >= 3
          /\ \E k \in BlockOf(c, r) : InBasis[k].t = "num"

\* the first row after r of the column being scanned with a non-blank,
\* non-zero value, or the row count plus one
ScanBlockEnd(r) ==
    LET later == {k \in (r + 1)..NumRows : IsNonZero(current_col_values_dec[k])}
    IN  IF later = {} THEN NumRows + 1
        ELSE CHOOSE k \in later : \A m \in later : k <= m

\* at the head of the main loop the rows before i are assigned, the rows
\* from i on are not, and row i is no continuation row of an earlier carrier
ScanAtGroupStart ==
    pc = "scan" =>
        /\ i \in 1..(NumRows + 1)
        /\ \A k \in 1..NumRows : (k < i) <=> ~IsNone(processed_col_values[k])
        /\ (i <= NumRows /\ ~IsNonZero(current_col_values_dec[i])) =>
               \A m \in 1..(i - 1) : ~IsNonZero(current_col_values_dec[m])

\* an iteration on a carrier collects exactly the rows up to the next
\* non-blank, non-zero target value and resumes the scan there
CarrierStep ==
    (pc = "scan" /\ i <= NumRows /\ IsNonZero(current_col_values_dec[i])
        /\ pc' = "scan") =>
            /\ j' = ScanBlockEnd(i)
            /\ distribution_rows_indices' = [k \in 1..(j' - i - 1) |-> i + k]
            /\ \A k \in (i + 1)..(j' - 1) : ~IsNonZero(current_col_values_dec[k])
            /\ i' = j'

\* C6: a carrier's block is the run of blank or zero target values after it,
\* whatever their basis; the scan resumes at the end of the block, so no
\* continuation row is processed as a carrier or assigned twice.
C6_BlocksByTargetColumn == [][CarrierStep]_vars /\ []ScanAtGroupStart

\* the scan resumed at a carrier after a block whose continuation row has
\* no basis value
C6_Witness ==
    /\ pc = "scan"
    /\ i <= NumRows
    /\ i = j
    /\ distribution_rows_indices # <<>>
    /\ IsNonZero(current_col_values_dec[i])
    /\ \E k \in Range(distribution_rows_indices) : IsNone(basis_values_dec[k])

\* C7: a processed column keeps its length and holds no blank: every entry
\* is a decimal, and blank or zero rows before the first carrier are zero.
C7_NoBlankRemains ==
    pc = "done" =>
        \A c \in ProcessedColumns :
            /\ Len(raw_data[c]) = Len(input_data[c])
            /\ \A k \in 1..Len(raw_data[c]) :
                  /\ raw_data[c][k].t = "num"
                  /\ (\A m \in 1..k : ~IsNonZero(InCol(c)[m])) =>
                         raw_data[c][k] = NumCell(0)

C7_Witness ==
    /\ pc = "done"
    /\ calls = 1
    /\ \E c \in ProcessedColumns :
          /\ IsNone(InCol(c)[1])
          /\ input_data[c][1].t = "str"
          /\ \E k \in 1..Len(input_data[c]) : IsNonZero(InCol(c)[k])

\* C8: a listed column of another length than the basis column is left
\* untouched, and the other listed columns are distributed as without it.
C8_MismatchedColumnSkipped ==
    (pc \in {"done", "raised"} /\ MismatchedColumns # {}) =>
        /\ pc = "done"
        /\ \A c \in MismatchedColumns : raw_data[c] = input_data[c]
        /\ \A c \in ProcessedColumns :
              raw_data[c] = DistributeColumn(input_data[c], InBasis)

C8_Witness ==
    /\ pc = "done"
    /\ calls = 1
    /\ MismatchedColumns # {}
    /\ columns_to_distribute[1] \in MismatchedColumns
    /\ \E c \in ProcessedColumns : raw_data[c] # input_data[c]

\* ------------------------------------------------------------------------
\* Aggregation: aggregate_standard_by_po_item_price, aggregate_custom_by_po_item
\* ------------------------------------------------------------------------
NumTables == 2      \* tables folded into the maps of one run
MaxAggRows == 2     \* rows of a table handed to an aggregator

\* the sentinel strings, each written as one symbol
MissingPo == StrCell(<<"<MISSING_PO>">>)

MissingItem == StrCell(<<"<MISSING_ITEM>">>)

\* processed_data.get(col, [])
GetList(table, col) == IF col \in DOMAIN table THEN table[col] ELSE <<>>

\* the key component without the sentinel: None stays None
KeyPartNoSentinel(val, sentinel) ==
    IF val.t = "str" THEN StrCell(Strip(val.s)) ELSE val

\* "str(v).strip() if isinstance(v, str) else v", then the sentinel for None
KeyPart(val, sentinel) ==
    IF val.t = "str" THEN StrCell(Strip(val.s))
    ELSE IF val.t = "none" THEN sentinel
    ELSE val

\* decimal.getcontext().prec
prec == 28

\* number of decimal digits of m >= 0 (none for 0)
RECURSIVE DigitCount(_)
DigitCount(m) == IF m = 0 THEN 0 ELSE 1 + DigitCount(m \div 10)

\* digits of |h * 10^prec + l| beyond prec, for |l| < 10^prec
ExcessDigits(h, l) ==
    LET m == IF h < 0 THEN 0 - h ELSE h
        opposite == (h > 0 /\ l < 0) \/ (h < 0 /\ l > 0)
    IN  IF h = 0 THEN 0
        ELSE IF opposite THEN DigitCount(m - 1) ELSE DigitCount(m)

\* l rounded to a multiple of q, ties to the even multiple (ROUND_HALF_EVEN,
\* the rounding of the default context)
RoundHalfEven(l, q) ==
    LET f == l \div q
        r == l % q
    IN  IF 2 * r < q THEN f * q
        ELSE IF 2 * r > q THEN (f + 1) * q
        ELSE IF f % 2 = 0 THEN f * q ELSE (f + 1) * q

\* a + b without the rounding of the context
ExactAdd(a, b) == BigCell(a.hi + b.hi, a.n + b.n)

\* a + b in the decimal context: the exact sum rounded to prec digits
DecimalAdd(a, b) ==
    LET h == a.hi + b.hi
        l == a.n + b.n
    IN  BigCell(h, RoundHalfEven(l, Pow10(ExcessDigits(h, l))))

\* _convert_to_decimal, with Decimal(0) in place of None
DecimalOrZero(raw) ==
    LET d == ConvertToDecimal(raw) IN IF IsNone(d) THEN NumCell(0) ELSE d

ZeroSums == [sqft_sum |-> NumCell(0), amount_sum |-> NumCell(0)]

\* the sums of a key set by its first row and left alone by the later rows
KeepFirstKey(results, key, sqft_dec, amount_dec) ==
    IF key \in DOMAIN results THEN results
    ELSE results @@ (key :> [sqft_sum |-> sqft_dec, amount_sum |-> amount_dec])

\* the sums of a key overwritten by the row's values instead of increased
ReplaceKey(results, key, sqft_dec, amount_dec) ==
    IF key \in DOMAIN results
    THEN [results EXCEPT ![key] = [sqft_sum |-> sqft_dec, amount_sum |-> amount_dec]]
    ELSE results @@ (key :> [sqft_sum |-> sqft_dec, amount_sum |-> amount_dec])

\* current_sums = results.get(key, zeros); both sums increased; stored back
AddToKey(results, key, sqft_dec, amount_dec) ==
    LET current_sums == IF key \in DOMAIN results THEN results[key] ELSE ZeroSums
        updated == [sqft_sum |-> DecimalAdd(current_sums.sqft_sum, sqft_dec),
                    amount_sum |-> DecimalAdd(current_sums.amount_sum, amount_dec)]
    IN  IF key \in DOMAIN results
        THEN [results EXCEPT ![key] = updated]
        ELSE results @@ (key :> updated)

\* the key of row r for the standard strategy: (PO, Item, Price)
StandardKey(table, r) ==
    <<KeyPart(table.po[r], MissingPo), KeyPart(table.item[r], MissingItem),
      ConvertToDecimal(table.unit[r])>>

\* the row loop leaving out every row with a quantity or an amount that
\* does not convert
RECURSIVE StandardRowsSkipBad(_, _, _)
StandardRowsSkipBad(results, table, r) ==
    IF r > Len(table.po) THEN results
    ELSE IF IsNone(ConvertToDecimal(table.sqft[r]))
            \/ IsNone(ConvertToDecimal(table.amount[r]))
    THEN StandardRowsSkipBad(results, table, r + 1)
    ELSE StandardRowsSkipBad(
             AddToKey(results, StandardKey(table, r),
                      DecimalOrZero(table.sqft[r]), DecimalOrZero(table.amount[r])),
             table, r + 1)

\* the row loop of aggregate_standard_by_po_item_price from row r on
RECURSIVE StandardRows(_, _, _)
StandardRows(results, table, r) ==
    IF r > Len(table.po) THEN results
    ELSE StandardRows(
             AddToKey(results, StandardKey(table, r),
                      DecimalOrZero(table.sqft[r]), DecimalOrZero(table.amount[r])),
             table, r + 1)

StandardRequired == {"po", "item", "unit", "sqft", "amount"}

\* isinstance(processed_data, dict): a table is a dict of columns, anything
\* else is a cell
IsDict(table) == "t" \notin DOMAIN table

\* the lengths not compared before the loop: the rows are added as far as
\* the shortest column goes
AggregateStandardRowByRow(table, results) ==
    IF ~IsDict(table) THEN results
    ELSE IF StandardRequired \ DOMAIN table # {} THEN results
    ELSE LET shortest == CHOOSE n \in 0..Len(table.po) :
                            /\ \A c \in StandardRequired : n <= Len(table[c])
                            /\ \E c \in StandardRequired : n = Len(table[c])
         IN  StandardRows(results,
                          [c \in StandardRequired |-> SubSeq(table[c], 1, shortest)], 1)

\* aggregate_standard_by_po_item_price(processed_data, global_aggregation_map)
AggregateStandard(table, results) ==
    IF ~IsDict(table) THEN results
    ELSE IF StandardRequired \ DOMAIN table # {} THEN results
    ELSE IF \E c \in StandardRequired : Len(table[c]) # Len(table.po) THEN results
    ELSE IF Len(table.po) = 0 THEN results
    ELSE StandardRows(results, table, 1)

\* "x_list[i] if x_list else None"
CellOrNone(list, r) == IF list # <<>> THEN list[r] ELSE NoneCell

\* the key of the custom strategy with the PO as written, not stripped
CustomKeyUnstripped(table, r) ==
    <<IF IsNone(CellOrNone(GetList(table, "po"), r)) THEN MissingPo
      ELSE CellOrNone(GetList(table, "po"), r),
      KeyPart(CellOrNone(GetList(table, "item"), r), MissingItem)>>

\* the key of row r for the custom strategy: (PO, Item)
CustomKey(table, r) ==
    <<KeyPart(CellOrNone(GetList(table, "po"), r), MissingPo),
      KeyPart(CellOrNone(GetList(table, "item"), r), MissingItem)>>

\* the row loop of aggregate_custom_by_po_item from row r on
RECURSIVE CustomRows(_, _, _)
CustomRows(results, table, r) ==
    IF r > Len(GetList(table, "po")) THEN results
    ELSE CustomRows(
             AddToKey(results, CustomKey(table, r),
                      DecimalOrZero(CellOrNone(GetList(table, "sqft"), r)),
                      DecimalOrZero(CellOrNone(GetList(table, "amount"), r))),
             table, r + 1)

CustomRequired == {"po", "item", "sqft", "amount"}

\* aggregate_custom_by_po_item(processed_data, global_custom_aggregation_map):
\* missing columns are only logged, the lengths of the columns found are
\* compared with the length of the po list
AggregateCustom(table, results) ==
    LET num_rows == Len(GetList(table, "po"))
        found == CustomRequired \cap DOMAIN table
    IN  IF ~IsDict(table) THEN results
        ELSE IF \E c \in found : Len(table[c]) # num_rows THEN results
        ELSE IF num_rows = 0 THEN results
        ELSE CustomRows(results, table, 1)

\* ------------------------------------------------------------------------
\* Inputs of the aggregators
\* ------------------------------------------------------------------------
\* a plain row
PlainRow ==
    [po |-> StrCell(<<"A">>), item |-> StrCell(<<"X">>), unit |-> StrCell(<<"1">>),
     sqft |-> NumCell(6), amount |-> NumCell(2)]

\* a row with a padded PO, another price, a negative quantity and an
\* unparseable amount
PaddedRow ==
    [po |-> StrCell(<<" ", "A">>), item |-> StrCell(<<"X">>), unit |-> NumCell(2 * Scale),
     sqft |-> NumCell(0 - 1), amount |-> StrCell(<<"x">>)]

\* a row with missing PO, item, price and quantity
MissingRow ==
    [po |-> NoneCell, item |-> NoneCell, unit |-> NoneCell,
     sqft |-> NoneCell, amount |-> NumCell(1)]

\* a row whose quantity needs all the digits of the context
BigRow ==
    [po |-> StrCell(<<"A">>), item |-> StrCell(<<"X">>), unit |-> NumCell(Scale),
     sqft |-> BigCell(1, 0), amount |-> NoneCell]

AggRows == {PlainRow, PaddedRow, MissingRow, BigRow}

\* the column-oriented table of a sequence of rows
TableOf(rows) ==
    [po |-> [k \in 1..Len(rows) |-> rows[k].po],
     item |-> [k \in 1..Len(rows) |-> rows[k].item],
     unit |-> [k \in 1..Len(rows) |-> rows[k].unit],
     sqft |-> [k \in 1..Len(rows) |-> rows[k].sqft],
     amount |-> [k \in 1..Len(rows) |-> rows[k].amount]]

\* the rows of the tables are listed plain rows first, big rows last
RowRank(r) ==
    CASE r = PlainRow -> 1 [] r = PaddedRow -> 2 [] r = MissingRow -> 3 [] OTHER -> 4

WellFormedTables(n) ==
    {TableOf(rows) : rows \in {rs \in [1..n -> AggRows] :
                                 \A k \in 1..(n - 1) : RowRank(rs[k]) <= RowRank(rs[k + 1])}}

\* table without column c
Without(table, c) == [k \in DOMAIN table \ {c} |-> table[k]]

SampleTable ==
    TableOf(<<PlainRow, MissingRow>>)

\* a table whose amount column is one cell short
ShortAmountTable == [SampleTable EXCEPT !.amount = <<NumCell(1)>>]

\* tables without a required column, or with a column one cell short, and
\* None in place of a table
MalformedTables ==
    {Without(SampleTable, "unit"), Without(SampleTable, "sqft"),
     Without(SampleTable, "po"), Without(SampleTable, "item"),
     Without(SampleTable, "amount"), ShortAmountTable, NoneCell}

\* ------------------------------------------------------------------------
\* One run: every table is folded into the map of the run's strategy
\* ------------------------------------------------------------------------
InitAgg ==
    /\ CallIdle
    /\ use_custom_aggregation \in BOOLEAN
    /\ global_standard_aggregation_results = <<>>
    /\ global_custom_aggregation_results = <<>>
    /\ processed_data = <<>>
    /\ folded = EmptyBag
    /\ raw_data = <<>>
    /\ columns_to_distribute = <<>>
    /\ input_data = <<>>
    /\ pc = "aggregate"
    /\ calls = 0
    /\ valid_columns_to_distribute = <<>>
    /\ basis_values_dec = <<>>
    /\ col_pos = 0
    /\ current_col_values_dec = <<>>
    /\ processed_col_values = <<>>
    /\ i = 0
    /\ j = 0
    /\ distribution_rows_indices = <<>>
    /\ RunIdle
    /\ FobIdle

\* the tables that may be handed to an aggregator
AggTables == UNION {WellFormedTables(n) : n \in 0..MaxAggRows} \cup MalformedTables

\* the run aggregates a table with the standard strategy
FoldStandard ==
    /\ pc = "aggregate"
    /\ ~use_custom_aggregation
    /\ \E t \in AggTables :
          /\ BagCardinality(folded) < NumTables
          /\ processed_data' = t
          /\ global_standard_aggregation_results' =
                 AggregateStandard(t, global_standard_aggregation_results)
          /\ folded' = folded (+) SetToBag({t})
    /\ UNCHANGED <<use_custom_aggregation, global_custom_aggregation_results>>
    /\ UNCHANGED <<distVars, runVars, fobVars, callVars>>

\* the run aggregates a table with the custom strategy
FoldCustom ==
    /\ pc = "aggregate"
    /\ use_custom_aggregation
    /\ \E t \in AggTables :
          /\ BagCardinality(folded) < NumTables
          /\ processed_data' = t
          /\ global_custom_aggregation_results' =
                 AggregateCustom(t, global_custom_aggregation_results)
          /\ folded' = folded (+) SetToBag({t})
    /\ UNCHANGED <<use_custom_aggregation, global_standard_aggregation_results>>
    /\ UNCHANGED <<distVars, runVars, fobVars, callVars>>

NextAgg == FoldStandard \/ FoldCustom

SpecAgg == InitAgg /\ [][NextAgg]_vars

\* ------------------------------------------------------------------------
\* Properties of the aggregation maps
\* ------------------------------------------------------------------------
\* the map of the run's strategy
ActiveResults ==
    IF use_custom_aggregation THEN global_custom_aggregation_results
    ELSE global_standard_aggregation_results

\* a <= b for decimals
DecimalLeq(a, b) == a.hi < b.hi \/ (a.hi = b.hi /\ a.n <= b.n)

KeysKept == DOMAIN ActiveResults \subseteq DOMAIN ActiveResults'

SumsGrow ==
    \A key \in DOMAIN ActiveResults \cap DOMAIN ActiveResults' :
        /\ DecimalLeq(ActiveResults[key].sqft_sum, ActiveResults'[key].sqft_sum)
        /\ DecimalLeq(ActiveResults[key].amount_sum, ActiveResults'[key].amount_sum)

\* no quantity or amount of the table converts to a negative number
NonNegativeTable(table) ==
    \A c \in {"sqft", "amount"} : \A k \in 1..Len(GetList(table, c)) :
        DecimalLeq(NumCell(0), DecimalOrZero(table[c][k]))

\* C9 (as stated): across the aggregate calls of a run a key once present is
\* never removed and both of its sums are non-decreasing from one call to
\* the next, whatever the table holds.
C9_KeysKeptSumsGrow == [][KeysKept /\ SumsGrow]_vars

\* C9 (amended): a key once present is never removed, and both of its sums
\* are non-decreasing across every call whose table holds no negative
\* quantity or amount.
C9_KeysKeptSumsGrowNonNegative ==
    [][KeysKept /\ (NonNegativeTable(processed_data') => SumsGrow)]_vars

\* a second call has raised the sums of a key that the first call created
C9_Witness ==
    /\ folded = SetToBag({TableOf(<<PlainRow>>)}) (+) SetToBag({TableOf(<<PlainRow>>)})
    /\ NonNegativeTable(processed_data)
    /\ \E key \in DOMAIN ActiveResults :
          /\ ActiveResults[key].sqft_sum = NumCell(12)
          /\ ActiveResults[key].amount_sum = NumCell(4)

\* the run's aggregator
Aggregate(table, results) ==
    IF use_custom_aggregation THEN AggregateCustom(table, results)
    ELSE AggregateStandard(table, results)

\* the tables of the sequence folded one after the other into the map
RECURSIVE FoldAll(_, _)
FoldAll(tables, results) ==
    IF tables = <<>> THEN results
    ELSE FoldAll(Tail(tables), Aggregate(Head(tables), results))

\* the orders in which the tables of the bag can be folded
Orders(bag) ==
    {s \in [1..BagCardinality(bag) -> BagToSet(bag)] :
        \A t \in BagToSet(bag) :
            Cardinality({k \in 1..BagCardinality(bag) : s[k] = t}) = CopiesIn(t, bag)}

\* |d|
DecimalAbs(d) ==
    IF DecimalLeq(NumCell(0), d) THEN d ELSE BigCell(0 - d.hi, 0 - d.n)

\* the absolute values of column c of the table from row k on, added exactly
RECURSIVE ColumnAbsTotal(_, _, _)
ColumnAbsTotal(table, c, k) ==
    IF k > Len(GetList(table, c)) THEN NumCell(0)
    ELSE ExactAdd(DecimalAbs(DecimalOrZero(table[c][k])),
                  ColumnAbsTotal(table, c, k + 1))

\* the absolute values of column c of all the tables of the bag, added exactly
RECURSIVE BagAbsTotal(_, _, _)
BagAbsTotal(bag, c, todo) ==
    IF todo = {} THEN NumCell(0)
    ELSE LET t == CHOOSE x \in todo : TRUE
             one == ColumnAbsTotal(t, c, 1)
             rest == BagAbsTotal(bag, c, todo \ {t})
         IN  BigCell(CopiesIn(t, bag) * one.hi + rest.hi,
                     CopiesIn(t, bag) * one.n + rest.n)

\* the quantities and the amounts of the bag each total, in absolute value,
\* a number of at most prec digits: no addition of any order is rounded
FitsContext(bag) ==
    \A c \in {"sqft", "amount"} :
        LET total == BagAbsTotal(bag, c, BagToSet(bag))
        IN  ExcessDigits(total.hi, total.n) = 0

\* C10 (as stated): starting from an empty map, folding the same tables in
\* any order with the same aggregator gives the same final map.
C10_OrderIndependent ==
    \A s \in Orders(folded) : FoldAll(s, <<>>) = ActiveResults

\* C10 (amended): folding the same tables in any order gives the same final
\* map when the absolute values of the quantities and of the amounts each
\* total less than 10^prec quanta, so that every sum fits the digits of the
\* decimal context.
C10_OrderIndependentWithinContext ==
    FitsContext(folded) => \A s \in Orders(folded) : FoldAll(s, <<>>) = ActiveResults

\* two different tables with a common key have been folded
C10_Witness ==
    /\ use_custom_aggregation
    /\ folded = SetToBag({TableOf(<<PlainRow>>), TableOf(<<PaddedRow, MissingRow>>)})
    /\ FitsContext(folded)
    /\ Cardinality(Orders(folded)) = 2
    /\ \E key \in DOMAIN ActiveResults : ActiveResults[key].sqft_sum = NumCell(5)

\* the required columns of the run's aggregator
RequiredColumns == IF use_custom_aggregation THEN CustomRequired ELSE StandardRequired

\* the table has every required column, all of one length
CompleteTable(table) ==
    /\ RequiredColumns \subseteq DOMAIN table
    /\ \A c \in RequiredColumns : Len(table[c]) = Len(table.po)

\* the key that the run's aggregator builds for row r
RowKey(table, r) ==
    IF use_custom_aggregation THEN CustomKey(table, r) ELSE StandardKey(table, r)

RowKeys(table) == {RowKey(table, r) : r \in 1..Len(table.po)}

\* the values of column c in the rows of the set, added exactly, a cell that
\* does not convert counting as zero
RECURSIVE RowsTotal(_, _, _)
RowsTotal(table, c, rows) ==
    IF rows = {} THEN NumCell(0)
    ELSE LET r == CHOOSE x \in rows : TRUE
         IN  ExactAdd(DecimalOrZero(table[c][r]), RowsTotal(table, c, rows \ {r}))

SumsBefore(key) ==
    IF key \in DOMAIN ActiveResults THEN ActiveResults[key] ELSE ZeroSums

\* the step adds, for every key, the contributions of all the rows of the
\* table that build the key, and nothing else
AddsRowContributions(table) ==
    /\ DOMAIN ActiveResults' = DOMAIN ActiveResults \cup RowKeys(table)
    /\ \A key \in DOMAIN ActiveResults' :
          LET rows == {r \in 1..Len(table.po) : RowKey(table, r) = key}
          IN  /\ ActiveResults'[key].sqft_sum =
                     ExactAdd(SumsBefore(key).sqft_sum, RowsTotal(table, "sqft", rows))
              /\ ActiveResults'[key].amount_sum =
                     ExactAdd(SumsBefore(key).amount_sum, RowsTotal(table, "amount", rows))

\* the step folds a table
Folds == folded' # folded

\* C11 (as stated): folding a table with all required columns of equal
\* length adds exactly the contributions of its rows: every key's sums grow
\* by the sum of the values of the rows that build it, a cell that is
\* missing, blank or unparseable counting as zero and skipping nothing.
C11_RowContributions ==
    [][(Folds /\ CompleteTable(processed_data'))
           => AddsRowContributions(processed_data')]_vars

\* C11 (amended): the same, for every fold after which the quantities and the
\* amounts folded so far each total less than 10^prec quanta in absolute
\* value, so that no addition is rounded.
C11_RowContributionsWithinContext ==
    [][(Folds /\ CompleteTable(processed_data') /\ FitsContext(folded'))
           => AddsRowContributions(processed_data')]_vars

\* a table with an unparseable amount has been folded: both of its rows
\* went to one key and the unparseable cell counted as zero
C11_Witness ==
    /\ use_custom_aggregation
    /\ processed_data = TableOf(<<PlainRow, PaddedRow>>)
    /\ folded = SetToBag({processed_data})
    /\ FitsContext(folded)
    /\ DOMAIN ActiveResults = {<<StrCell(<<"A">>), StrCell(<<"X">>)>>}
    /\ \A key \in DOMAIN ActiveResults :
          ActiveResults[key] = [sqft_sum |-> NumCell(5), amount_sum |-> NumCell(2)]

\* number of rows of the table whose PO is missing
MissingPoRows(table) ==
    Cardinality({r \in 1..Len(table.po) : IsNone(table.po[r])})

\* rows with a missing PO in the complete tables folded so far
RECURSIVE MissingPoCount(_, _)
MissingPoCount(bag, todo) ==
    IF todo = {} THEN 0
    ELSE LET t == CHOOSE x \in todo : TRUE
         IN  (IF CompleteTable(t) THEN CopiesIn(t, bag) * MissingPoRows(t) ELSE 0)
             + MissingPoCount(bag, todo \ {t})

\* keys whose PO component is the sentinel
MissingPoKeys == {key \in DOMAIN ActiveResults : key[1] = MissingPo}

\* C12: no key of the aggregation map has a null PO or Item component; a row
\* with a missing PO (resp. Item) is aggregated under "<MISSING_PO>" (resp.
\* "<MISSING_ITEM>"), and the rows with missing PO and equal other key
\* components accumulate into one record (in the model every such row has
\* amount 1 and the same other components, so when all the tables folded
\* are complete one key holds their count).
C12_MissingUnderSentinel ==
    /\ \A key \in DOMAIN ActiveResults : ~IsNone(key[1]) /\ ~IsNone(key[2])
    /\ \A t \in BagToSet(folded) :
          CompleteTable(t) =>
              \A r \in 1..Len(t.po) :
                  /\ IsNone(t.po[r]) =>
                        \E key \in MissingPoKeys : key = RowKey(t, r)
                  /\ IsNone(t.item[r]) =>
                        \E key \in DOMAIN ActiveResults :
                            key[2] = MissingItem /\ key = RowKey(t, r)
    /\ (/\ \A t \in BagToSet(folded) : CompleteTable(t)
        /\ MissingPoCount(folded, BagToSet(folded)) > 0) =>
          /\ Cardinality(MissingPoKeys) = 1
          /\ \A key \in MissingPoKeys :
                ActiveResults[key].amount_sum =
                    NumCell(MissingPoCount(folded, BagToSet(folded)))

\* rows with missing PO and item from two tables share one record
C12_Witness ==
    /\ BagCardinality(folded) = 2
    /\ \A t \in BagToSet(folded) : CompleteTable(t) /\ MissingPoRows(t) >= 1
    /\ \E key \in MissingPoKeys :
          /\ key[2] = MissingItem
          /\ ActiveResults[key].amount_sum = NumCell(3)

\* ------------------------------------------------------------------------
\* FOB compounding: perform_fob_compounding and format_chunks
\* ------------------------------------------------------------------------
MaxFobKeys == 5     \* entries of a map handed to perform_fob_compounding
MaxItems == 5       \* items of a list handed to format_chunks
MaxChunk == 3       \* chunk sizes tried for format_chunks

FOB_CHUNK_SIZE == 2
FOB_INTRA_CHUNK_SEPARATOR == <<"\\">>
FOB_INTER_CHUNK_SEPARATOR == <<"\n">>

\* the characters of a symbol of a string: the two sentinels are kept as one
\* symbol each and stand for their text
Chars(sym) ==
    IF sym = "<MISSING_PO>"
    THEN <<"<", "M", "I", "S", "S", "I", "N", "G", "_", "P", "O", ">">>
    ELSE IF sym = "<MISSING_ITEM>"
    THEN <<"<", "M", "I", "S", "S", "I", "N", "G", "_", "I", "T", "E", "M", ">">>
    ELSE <<sym>>

RECURSIVE Expand(_)
Expand(s) == IF s = <<>> THEN <<>> ELSE Chars(Head(s)) \o Expand(Tail(s))

\* ord(ch) for the characters that occur
CodePoint(ch) ==
    CASE ch = "\n" -> 10 [] ch = " " -> 32 [] ch = "-" -> 45 [] ch = "." -> 46
      [] ch \in Digits -> 48 + DigitVal(ch)
      [] ch = "<" -> 60 [] ch = ">" -> 62
      [] ch = "A" -> 65 [] ch = "B" -> 66 [] ch = "C" -> 67 [] ch = "D" -> 68
      [] ch = "E" -> 69 [] ch = "F" -> 70 [] ch = "G" -> 71 [] ch = "I" -> 73
      [] ch = "M" -> 77 [] ch = "N" -> 78 [] ch = "O" -> 79 [] ch = "P" -> 80
      [] ch = "S" -> 83 [] ch = "T" -> 84 [] ch = "X" -> 88 [] ch = "Y" -> 89
      [] ch = "\\" -> 92 [] ch = "_" -> 95 [] ch = "x" -> 120

\* a < b for two str values: the first differing character decides, a proper
\* prefix comes first
RECURSIVE CharsLess(_, _)
CharsLess(a, b) ==
    IF b = <<>> THEN FALSE
    ELSE IF a = <<>> THEN TRUE
    ELSE IF Head(a) = Head(b) THEN CharsLess(Tail(a), Tail(b))
    ELSE CodePoint(Head(a)) < CodePoint(Head(b))

StrLess(a, b) == CharsLess(Expand(a), Expand(b))

\* "str(v) if v is not None else sentinel"
StrForm(val, sentinel) ==
    IF val.t = "none" THEN sentinel.s
    ELSE IF val.t = "str" THEN val.s
    ELSE IntStr(val)

\* the strings of a set in descending order
RECURSIVE SortedDescending(_)
SortedDescending(strs) ==
    IF strs = {} THEN <<>>
    ELSE LET last == CHOOSE a \in strs : \A b \in strs \ {a} : StrLess(b, a)
         IN  <<last>> \o SortedDescending(strs \ {last})

\* sorted(list(strs))
RECURSIVE Sorted(_)
Sorted(strs) ==
    IF strs = {} THEN <<>>
    ELSE LET first == CHOOSE a \in strs : \A b \in strs \ {a} : StrLess(a, b)
         IN  <<first>> \o Sorted(strs \ {first})

\* sep.join(strs)
RECURSIVE Join(_, _)
Join(strs, sep) ==
    IF strs = <<>> THEN <<>>
    ELSE IF Len(strs) = 1 THEN strs[1]
    ELSE strs[1] \o sep \o Join(Tail(strs), sep)

\* items[i:i + chunk_size], with start for i
Slice(list, start, size) ==
    SubSeq(list, start + 1,
           IF start + size < Len(list) THEN start + size ELSE Len(list))

\* format_chunks with a separator after every chunk, the last one too
FormatChunksTrailing(list, size, intra_sep, inter_sep) ==
    Join([k \in 1..((Len(list) + size - 1) \div size) |->
              Join(Slice(list, (k - 1) * size, size), intra_sep) \o inter_sep],
         <<>>)

\* format_chunks(items, chunk_size, intra_sep, inter_sep): range(0, len, size)
\* has ceil(len / size) elements
FormatChunks(list, size, intra_sep, inter_sep) ==
    IF list = <<>> THEN <<>>
    ELSE LET processed_chunks ==
                 [k \in 1..((Len(list) + size - 1) \div size) |->
                      Join(Slice(list, (k - 1) * size, size), intra_sep)]
         IN  Join(processed_chunks, inter_sep)

\* a record of zeros and empty strings in the place of None
ZeroRecord ==
    [t |-> "dict", combined_po |-> <<>>, combined_item |-> <<>>,
     total_sqft |-> NumCell(0), total_amount |-> NumCell(0)]

\* what perform_fob_compounding returns: None or a dictionary
NoneResult ==
    [t |-> "none", combined_po |-> <<>>, combined_item |-> <<>>,
     total_sqft |-> NumCell(0), total_amount |-> NumCell(0)]

FobRecord(po, item, sqft, amount) ==
    [t |-> "dict", combined_po |-> po, combined_item |-> item,
     total_sqft |-> sqft, total_amount |-> amount]

\* nothing returned for an empty map
EmptyInputNone == NoneResult

\* lines 64-71: the default record returned for an empty map
EmptyInputResult == FobRecord(<<>>, <<>>, NumCell(0), NumCell(0))

\* the key of an entry can be unpacked in the mode
Unpacks(key, mode) ==
    IF mode = "standard" THEN Len(key) = 3 ELSE Len(key) = 2

\* ".get(name, Decimal(0))", and Decimal(0) for a value that is no Decimal
SumOrZero(sum) == IF sum.t = "num" THEN sum ELSE NumCell(0)

\* the loop's totals with the last entry left out
RECURSIVE FobTotalsButLast(_, _, _)
FobTotalsButLast(entries, mode, totals) ==
    IF Len(entries) <= 1 THEN totals
    ELSE LET key == entries[1][1]
             sums_dict == entries[1][2]
         IN  FobTotalsButLast(Tail(entries), mode,
                 IF Unpacks(key, mode)
                 THEN [sqft_sum |-> DecimalAdd(totals.sqft_sum,
                                               SumOrZero(sums_dict.sqft_sum)),
                       amount_sum |-> DecimalAdd(totals.amount_sum,
                                                 SumOrZero(sums_dict.amount_sum))]
                 ELSE totals)

\* total_sqft and total_amount after the loop over initial_results.items():
\* an entry whose key does not unpack is skipped, every other entry is added
RECURSIVE FobTotals(_, _, _)
FobTotals(entries, mode, totals) ==
    IF entries = <<>> THEN totals
    ELSE LET key == entries[1][1]
             sums_dict == entries[1][2]
         IN  FobTotals(Tail(entries), mode,
                 IF Unpacks(key, mode)
                 THEN [sqft_sum |-> DecimalAdd(totals.sqft_sum,
                                               SumOrZero(sums_dict.sqft_sum)),
                       amount_sum |-> DecimalAdd(totals.amount_sum,
                                                 SumOrZero(sums_dict.amount_sum))]
                 ELSE totals)

\* unique_pos (part 1, MissingPo) and unique_items (part 2, MissingItem)
UniqueStrings(entries, mode, part, sentinel) ==
    {StrForm(entries[k][1][part], sentinel) :
        k \in {e \in 1..Len(entries) : Unpacks(entries[e][1], mode)}}

\* perform_fob_compounding(initial_results, aggregation_mode), the map given
\* as the list of its items
PerformFobCompounding(entries, mode) ==
    IF entries = <<>> THEN EmptyInputResult
    ELSE IF mode \notin {"standard", "custom"} THEN NoneResult
    ELSE LET totals == FobTotals(entries, mode, ZeroSums)
             sorted_pos == Sorted(UniqueStrings(entries, mode, 1, MissingPo))
             sorted_items == Sorted(UniqueStrings(entries, mode, 2, MissingItem))
         IN  FobRecord(
                 FormatChunks(sorted_pos, FOB_CHUNK_SIZE,
                              FOB_INTRA_CHUNK_SEPARATOR, FOB_INTER_CHUNK_SEPARATOR),
                 FormatChunks(sorted_items, FOB_CHUNK_SIZE,
                              FOB_INTRA_CHUNK_SEPARATOR, FOB_INTER_CHUNK_SEPARATOR),
                 totals.sqft_sum, totals.amount_sum)

\* ------------------------------------------------------------------------
\* Inputs of the compounder and of format_chunks
\* ------------------------------------------------------------------------
\* Keys as the aggregators build them (string, int and sentinel components)
\* and keys with None components, which the function accepts too.  Several
\* keys share a PO or an item; the int 12 and the text "12" have one string
\* form.
FobKeyPool ==
    <<  <<StrCell(<<"B">>), StrCell(<<"X">>), NumCell(Scale)>>,
        <<StrCell(<<"A">>), StrCell(<<"X">>), NumCell(Scale)>>,
        <<StrCell(<<"A">>), StrCell(<<"Y">>), NumCell(Scale)>>,
        <<StrCell(<<"A">>), StrCell(<<"X">>), NumCell(2 * Scale)>>,
        <<StrCell(<<"D">>), StrCell(<<"X">>), NoneCell>>,
        <<StrCell(<<"C">>), StrCell(<<"Y">>), NumCell(Scale)>>,
        <<StrCell(<<"E">>), StrCell(<<"X">>), NumCell(Scale)>>,
        <<MissingPo, MissingItem, NoneCell>>,
        <<NumCell(12 * Scale), StrCell(<<"X">>), NumCell(Scale)>>,
        <<StrCell(<<"1", "2">>), StrCell(<<"Y">>), NumCell(Scale)>>,
        <<NoneCell, NoneCell, NumCell(Scale)>>,
        <<StrCell(<<"A", "B">>), StrCell(<<>>), NumCell(Scale)>>  >>

\* the numbers of a set in ascending order
RECURSIVE Ascending(_)
Ascending(S) ==
    IF S = {} THEN <<>>
    ELSE LET m == CHOOSE a \in S : \A b \in S : a <= b
         IN  <<m>> \o Ascending(S \ {m})

Reverse(s) == [k \in 1..Len(s) |-> s[Len(s) + 1 - k]]

\* The sums of the entries.  "small": 0.0006 and a few units of amount, one
\* of them negative.  "bigFirst" and "bigLast": one entry holds 1E+24, a sum
\* of 25 digits before the point, first or last in the order of the map.
FobProfiles == {"small", "bigFirst", "bigLast"}

SumsAt(k, pos, profile) ==
    [sqft_sum |-> IF profile # "small" /\ pos = 1 THEN BigCell(1, 0) ELSE NumCell(6),
     amount_sum |-> IF k = 3 THEN NumCell(0 - 5 * Scale) ELSE NumCell(k * Scale)]

\* the map with the pool's keys of the set S cut to the given length, as the
\* list of its items in insertion order
FobEntries(S, shape, profile) ==
    LET order == Ascending(S)
        listed == [p \in 1..Len(order) |->
                      <<SubSeq(FobKeyPool[order[p]], 1, shape),
                        SumsAt(order[p], p, profile)>>]
    IN  IF profile = "bigLast" THEN Reverse(listed) ELSE listed

FobKeySets(shape) ==
    {S \in SUBSET (1..Len(FobKeyPool)) :
        /\ Cardinality(S) <= MaxFobKeys
        /\ Cardinality({SubSeq(FobKeyPool[k], 1, shape) : k \in S}) = Cardinality(S)}

FobModes == {"standard", "custom", "fob"}

\* sorted lists of strings handed to format_chunks
ItemPool ==
    <<  <<"A">>, <<"A", "B">>, <<"B">>, <<"C">>, <<"D">>, <<"E">>, <<"F">>  >>

ItemLists ==
    {[p \in 1..Cardinality(S) |-> ItemPool[Ascending(S)[p]]] :
        S \in {T \in SUBSET (1..Len(ItemPool)) : Cardinality(T) <= MaxItems}}

\* no call of distribute_values is under way
DistIdle ==
    /\ raw_data = <<>>
    /\ columns_to_distribute = <<>>
    /\ input_data = <<>>
    /\ pc = "idle"
    /\ calls = 0
    /\ valid_columns_to_distribute = <<>>
    /\ basis_values_dec = <<>>
    /\ col_pos = 0
    /\ current_col_values_dec = <<>>
    /\ processed_col_values = <<>>
    /\ i = 0
    /\ j = 0
    /\ distribution_rows_indices = <<>>

\* a call of perform_fob_compounding or of format_chunks is about to be made
InitFob ==
    /\ CallIdle
    /\ DistIdle
    /\ AggIdle
    /\ RunIdle
    /\ fob_result = NoneResult
    /\ formatted = <<>>
    /\ \/ /\ fob_pc = "compound"
          /\ aggregation_mode \in FobModes
          /\ \E shape \in {2, 3} : \E S \in FobKeySets(shape) :
                \E profile \in FobProfiles :
                    initial_results = FobEntries(S, shape, profile)
          /\ items = <<>>
          /\ chunk_size = 0
       \/ /\ fob_pc = "format"
          /\ items \in ItemLists
          /\ chunk_size \in 1..MaxChunk
          /\ initial_results = <<>>
          /\ aggregation_mode = "standard"

\* fob_result = perform_fob_compounding(initial_results, aggregation_mode)
Compound ==
    /\ fob_pc = "compound"
    /\ fob_result' = PerformFobCompounding(initial_results, aggregation_mode)
    /\ fob_pc' = "compounded"
    /\ UNCHANGED <<initial_results, aggregation_mode, items, chunk_size, formatted>>
    /\ UNCHANGED <<distVars, aggVars, runVars, callVars>>

\* formatted = format_chunks(items, chunk_size, "\\", "\n")
Format ==
    /\ fob_pc = "format"
    /\ formatted' = FormatChunks(items, chunk_size, FOB_INTRA_CHUNK_SEPARATOR,
                                 FOB_INTER_CHUNK_SEPARATOR)
    /\ fob_pc' = "formatted"
    /\ UNCHANGED <<initial_results, aggregation_mode, items, chunk_size, fob_result>>
    /\ UNCHANGED <<distVars, aggVars, runVars, callVars>>

NextFob == Compound \/ Format

SpecFob == InitFob /\ [][NextFob]_vars

\* ------------------------------------------------------------------------
\* Claims about the compounder
\* ------------------------------------------------------------------------
\* the call has returned
Compounded == fob_pc = "compounded"

\* the map is passed with the mode of the aggregator that builds such keys,
\* as run_invoice_automation passes it
FitsMode ==
    /\ aggregation_mode \in {"standard", "custom"}
    /\ \A k \in 1..Len(initial_results) :
          Unpacks(initial_results[k][1], aggregation_mode)

\* the field c of the sums of the entries at the positions todo, added exactly
RECURSIVE KeysTotal(_, _, _)
KeysTotal(entries, c, todo) ==
    IF todo = {} THEN NumCell(0)
    ELSE LET k == CHOOSE x \in todo : TRUE
         IN  ExactAdd(entries[k][2][c], KeysTotal(entries, c, todo \ {k}))

\* the same with the absolute values
RECURSIVE KeysAbsTotal(_, _, _)
KeysAbsTotal(entries, c, todo) ==
    IF todo = {} THEN NumCell(0)
    ELSE LET k == CHOOSE x \in todo : TRUE
         IN  ExactAdd(DecimalAbs(entries[k][2][c]),
                      KeysAbsTotal(entries, c, todo \ {k}))

\* the sums of the map total, in absolute value, a number of at most prec
\* digits: no addition of the loop is rounded
EntriesFitContext(entries) ==
    \A c \in {"sqft_sum", "amount_sum"} :
        LET total == KeysAbsTotal(entries, c, 1..Len(entries))
        IN  ExcessDigits(total.hi, total.n) = 0

TotalsAreSums ==
    /\ fob_result.t = "dict"
    /\ fob_result.total_sqft =
           KeysTotal(initial_results, "sqft_sum", 1..Len(initial_results))
    /\ fob_result.total_amount =
           KeysTotal(initial_results, "amount_sum", 1..Len(initial_results))

\* C16 (as stated): total_sqft and total_amount of the record equal the sums
\* of sqft_sum and of amount_sum over every key of the map passed to
\* perform_fob_compounding.
C16_TotalsAreSums == (Compounded /\ FitsMode) => TotalsAreSums

\* C16 (amended): the same, for a map whose sqft_sum values and whose
\* amount_sum values each total less than 10^prec quanta in absolute value,
\* so that no addition of the loop is rounded.
C16_TotalsAreSumsWithinContext ==
    (Compounded /\ FitsMode /\ EntriesFitContext(initial_results))
        => TotalsAreSums

\* a standard map of three keys, one with a negative amount, was compounded
C16_Witness ==
    /\ Compounded
    /\ aggregation_mode = "standard"
    /\ FitsMode
    /\ Len(initial_results) = 3
    /\ \E k \in 1..3 : initial_results[k][2].amount_sum = NumCell(0 - 5 * Scale)
    /\ fob_result.total_sqft = NumCell(18)
    /\ fob_result.total_amount = NumCell(0 - 2 * Scale)

\* str.split on the separators: the strings between them, in order
RECURSIVE Split(_, _)
Split(str, seps) ==
    IF str = <<>> THEN << <<>> >>
    ELSE LET rest == Split(Tail(str), seps)
         IN  IF Head(str) \in seps THEN << <<>> >> \o rest
             ELSE << <<Head(str)>> \o rest[1] >> \o Tail(rest)

\* the string forms of the components at the given place of all the keys
StringForms(part, sentinel) ==
    {StrForm(initial_results[k][1][part], sentinel) : k \in 1..Len(initial_results)}

\* the combined string lists the strings, each once, in ascending order
ListsAscending(combined, strs) ==
    IF strs = {} THEN combined = <<>>
    ELSE LET listed == Split(combined, {"\\", "\n"})
         IN  /\ Len(listed) = Cardinality(strs)
             /\ Range(listed) = strs
             /\ \A k \in 1..(Len(listed) - 1) : StrLess(listed[k], listed[k + 1])

\* C17: combined_po (combined_item) lists every distinct string form of the
\* PO (Item) components of the keys of the map exactly once, in ascending
\* lexicographic order, however many keys share a PO or an Item.  (For a map
\* passed with the mode of its aggregator, as the pipeline passes it.)
C17_CombinedListsSorted ==
    (Compounded /\ FitsMode) =>
        /\ fob_result.t = "dict"
        /\ ListsAscending(fob_result.combined_po, StringForms(1, MissingPo))
        /\ ListsAscending(fob_result.combined_item, StringForms(2, MissingItem))

\* five keys with three string forms of PO (the int 12 and the text "12"
\* have one, two keys share A) and two items were compounded
C17_Witness ==
    /\ Compounded
    /\ FitsMode
    /\ Len(initial_results) = 5
    /\ Cardinality(StringForms(1, MissingPo)) = 3
    /\ fob_result.combined_po = <<"1", "2", "\\", "A", "\n", "B">>
    /\ fob_result.combined_item = <<"X", "\\", "Y">>

\* the call of format_chunks has returned
Formatted == fob_pc = "formatted"

\* the chunks of the returned string and the items of chunk k
ChunksOf(str) == Split(str, {"\n"})

PartsOf(chunk) == Split(chunk, {"\\"})

FiveItems == << <<"A">>, <<"B">>, <<"C">>, <<"D">>, <<"E">> >>

\* C18: format_chunks on n >= 1 sorted items with chunk size c keeps the
\* order of the items, makes ceil(n / c) chunks of which all but possibly
\* the last hold exactly c items, joins the items of a chunk with the
\* backslash and the chunks with the newline, and puts no separator first or
\* last; A, B, C, D, E with chunk size 2 give A\B, C\D and E on three lines.
C18_ChunkFormatting ==
    (Formatted /\ Len(items) >= 1) =>
        LET n == Len(items)
            c == chunk_size
            chunks == ChunksOf(formatted)
            count == Len(chunks)
        IN  /\ (count - 1) * c < n
            /\ n <= count * c
            /\ \A k \in 1..count :
                  LET parts == PartsOf(chunks[k])
                  IN  /\ Len(parts) = IF k < count THEN c ELSE n - (count - 1) * c
                      /\ \A p \in 1..Len(parts) :
                            /\ (k - 1) * c + p <= n
                            /\ parts[p] = items[(k - 1) * c + p]
            /\ formatted # <<>>
            /\ formatted[1] \notin {"\\", "\n"}
            /\ formatted[Len(formatted)] \notin {"\\", "\n"}
            /\ (items = FiveItems /\ c = 2) =>
                  formatted = <<"A", "\\", "B", "\n", "C", "\\", "D", "\n", "E">>

\* the five POs of the example were formatted with chunk size 2
C18_Witness ==
    /\ Formatted
    /\ items = FiveItems
    /\ chunk_size = 2
    /\ Len(ChunksOf(formatted)) = 3
    /\ formatted = <<"A", "\\", "B", "\n", "C", "\\", "D", "\n", "E">>

\* ------------------------------------------------------------------------
\* run_invoice_automation: the steps on one table
\* ------------------------------------------------------------------------
\* config.COLUMNS_TO_DISTRIBUTE
COLUMNS_TO_DISTRIBUTE == <<"net", "gross">>

\* the numeric branch of _calculate_single_cbm is outside the try block:
\* quantize raises InvalidOperation when the result needs more than prec digits
CbmRaises(cbm_value) == cbm_value.t = "num" /\ cbm_value.hi # 0

\* the product truncated to 4 decimal places instead of rounded half-up
VolumeRoundedDown(dim1, dim2, dim3) ==
    LET g1 == GCD(Abs(dim1), Scale * Scale)
        d1 == (Scale * Scale) \div g1
        g2 == GCD(Abs(dim2), d1)
        d2 == d1 \div g2
        g3 == GCD(Abs(dim3), d2)
        num == (dim1 \div g1) * (dim2 \div g2) * (dim3 \div g3)
    IN  IF dim1 = 0 \/ dim2 = 0 \/ dim3 = 0 THEN 0
        ELSE IF num >= 0 THEN num \div (d2 \div g3)
        ELSE 0 - ((0 - num) \div (d2 \div g3))

\* (dim1 * dim2 * dim3).quantize(0.0001, ROUND_HALF_UP), the dimensions and
\* the volume in quanta; the division by Scale^2 is cancelled factor by factor
Volume(dim1, dim2, dim3) ==
    LET g1 == GCD(Abs(dim1), Scale * Scale)
        d1 == (Scale * Scale) \div g1
        g2 == GCD(Abs(dim2), d1)
        d2 == d1 \div g2
        g3 == GCD(Abs(dim3), d2)
    IN  IF dim1 = 0 \/ dim2 = 0 \/ dim3 = 0 THEN 0
        ELSE RoundHalfUp((dim1 \div g1) * (dim2 \div g2) * (dim3 \div g3),
                         d2 \div g3)

\* what a decimal is for the multiplication: a signalling NaN, a NaN, an
\* infinity, zero or another number
Kind(dim) ==
    IF dim.t = "special"
    THEN IF Lower(dim.s) \in {<<"s", "n", "a", "n">>, <<"-", "s", "n", "a", "n">>}
         THEN "snan"
         ELSE IF Lower(dim.s) \in {<<"n", "a", "n">>, <<"-", "n", "a", "n">>}
         THEN "nan" ELSE "inf"
    ELSE IF dim.n = 0 /\ dim.hi = 0 THEN "zero" ELSE "num"

\* Decimal.__mul__ on the kinds: a signalling NaN and infinity times zero
\* raise InvalidOperation, a NaN gives NaN, an infinity gives an infinity
TimesKind(a, b) ==
    IF "raise" \in {a, b} \/ "snan" \in {a, b} THEN "raise"
    ELSE IF "nan" \in {a, b} THEN "nan"
    ELSE IF "inf" \in {a, b} THEN (IF "zero" \in {a, b} THEN "raise" ELSE "inf")
    ELSE IF "zero" \in {a, b} THEN "zero"
    ELSE "num"

\* a * b, or bound when the product is bound or more (a, b >= 0, bound > 0)
CappedProduct(a, b, bound) ==
    IF b = 0 THEN 0
    ELSE IF a >= (bound + b - 1) \div b THEN bound ELSE a * b

\* the product of three numbers other than zero is 10^24 or more in
\* magnitude: its quantize to 4 places needs more than the 28 digits of the
\* context and raises InvalidOperation
ProductTooLarge(dims) ==
    LET large == {k \in 1..3 : dims[k].hi # 0}
        small == {k \in 1..3 : dims[k].hi = 0}
    IN  \/ Cardinality(large) >= 2
        \/ /\ Cardinality(large) = 1
           /\ LET b == CHOOSE k \in large : TRUE
                  s1 == CHOOSE k \in small : TRUE
                  s2 == CHOOSE k \in small : k # s1
              IN  CappedProduct(CappedProduct(dims[b].hi, Abs(dims[s1].n),
                                              Scale * Scale),
                                Abs(dims[s2].n), Scale * Scale)
                    >= Scale * Scale

\* (dim1 * dim2 * dim3).quantize(CBM_DECIMAL_PLACES, ROUND_HALF_UP) inside
\* the try block: the decimal, or None when an InvalidOperation is caught
CbmResult(dims) ==
    LET kind == TimesKind(TimesKind(Kind(dims[1]), Kind(dims[2])), Kind(dims[3]))
    IN  CASE kind \in {"raise", "inf"} -> NoneCell
          [] kind = "nan" ->
                dims[CHOOSE k \in 1..3 : /\ Kind(dims[k]) = "nan"
                                         /\ \A m \in 1..(k - 1) :
                                                Kind(dims[m]) # "nan"]
          [] kind = "zero" -> NumCell(0)
          [] kind = "num" /\ ProductTooLarge(dims) -> NoneCell
          [] kind = "num" /\ \A k \in 1..3 : dims[k].hi = 0 ->
                NumCell(Volume(dims[1].n, dims[2].n, dims[3].n))

\* _calculate_single_cbm for a value on which it returns
CalculateSingleCbm(cbm_value) ==
    IF cbm_value.t # "str" THEN cbm_value
    ELSE LET cbm_str == Strip(cbm_value.s)
             by_star == Split(cbm_str, {"*"})
             parts == IF Len(by_star) # 3 /\ Len(by_star) = 1
                         /\ \E k \in 1..Len(cbm_str) : cbm_str[k] \in {"x", "X"}
                      THEN Split(cbm_str, {"x", "X"})
                      ELSE by_star
             dims == [k \in 1..Len(parts) |-> ConvertToDecimal(StrCell(parts[k]))]
         IN  IF cbm_str = <<>> \/ Len(parts) # 3 THEN NoneCell
             ELSE IF \E k \in 1..3 : IsNone(dims[k]) THEN NoneCell
             ELSE CbmResult(dims)

\* process_cbm_column raises
ProcessCbmRaises(table) ==
    /\ "cbm" \in DOMAIN table
    /\ \E k \in 1..Len(table.cbm) : CbmRaises(table.cbm[k])

\* process_cbm_column when it returns: the cbm list replaced by the volumes
ProcessCbmColumn(table) ==
    IF "cbm" \notin DOMAIN table \/ table.cbm = <<>> THEN table
    ELSE [table EXCEPT !.cbm = [k \in 1..Len(table.cbm) |->
                                    CalculateSingleCbm(table.cbm[k])]]

\* distribute_values raises ProcessingError
DistributeRaises(table) == DOMAIN table # {} /\ basis_column \notin DOMAIN table

\* distribute_values(table, columns, basis_column) when it returns
DistributeValues(table, columns) ==
    IF DOMAIN table = {} THEN table
    ELSE LET valid == SelectSeq(columns, LAMBDA c : c \in DOMAIN table)
             basis == ConvertList(table[basis_column])
         IN  IF valid = <<>> \/ basis = <<>> THEN table
             ELSE [c \in DOMAIN table |->
                      IF (\E p \in 1..Len(valid) : valid[p] = c)
                         /\ Len(table[c]) = Len(basis)
                      THEN DistributeColumn(table[c], basis)
                      ELSE table[c]]

\* "not current_table_data or not any(isinstance(v, list) and v for v in ...)"
EmptyOrInvalid(table) == \A c \in DOMAIN table : table[c] = <<>>

\* the keys that the aggregator added for the rows from r on, in row order
RECURSIVE NewKeys(_, _, _, _)
NewKeys(order, table, results, r) ==
    IF r > Len(GetList(table, "po")) THEN order
    ELSE LET key == RowKey(table, r)
         IN  NewKeys(IF key \in DOMAIN results
                        /\ \A p \in 1..Len(order) : order[p] # key
                     THEN Append(order, key) ELSE order,
                     table, results, r + 1)

\* the insertion order of the map after the aggregator changed it to results
KeyOrderAfter(order, table, old, results) ==
    IF results = old THEN order ELSE NewKeys(order, table, results, 1)

\* dict.items() of the map
ItemsOf(results, order) ==
    [p \in 1..Len(order) |-> <<order[p], results[order[p]]>>]

\* os.path.basename
Basename(path) == LET names == Split(path, {"/"}) IN names[Len(names)]

\* str.startswith
StartsWith(str, prefix) ==
    Len(prefix) <= Len(str) /\ SubSeq(str, 1, Len(prefix)) = prefix

\* ------------------------------------------------------------------------
\* Inputs of run_invoice_automation
\* ------------------------------------------------------------------------
\* config.py: the workbook name and the prefixes that select the custom
\* strategy; the prefixes may be left undefined (config.py of the repository
\* does not define them)
Configs ==
    LET files == {<<"t">>, <<"J", "F", "1">>, <<"J", "F", "/", "t">>}
        lists == {<<>>, << <<"J", "F">> >>, << <<"C", "T">>, <<"J", "F">> >>}
    IN  {[INPUT_EXCEL_FILE |-> f, has_prefixes |-> TRUE,
          CUSTOM_AGGREGATION_WORKBOOK_PREFIXES |-> p] : f \in files, p \in lists}
        \cup {[INPUT_EXCEL_FILE |-> f, has_prefixes |-> FALSE,
               CUSTOM_AGGREGATION_WORKBOOK_PREFIXES |-> <<>>] : f \in files}

AllColumns == {"po", "item", "unit", "sqft", "amount", "pcs", "net", "cbm"}

\* two rows of one PO; net is given on the first row only and the cbm
\* cells are a text and a number
GoodTable ==
    [po |-> <<StrCell(<<"A">>), StrCell(<<"A">>)>>,
     item |-> <<StrCell(<<"X">>), StrCell(<<"Y">>)>>,
     unit |-> <<NumCell(Scale), NoneCell>>,
     sqft |-> <<NumCell(6), NumCell(6)>>,
     amount |-> <<NumCell(2 * Scale), StrCell(<<"1">>)>>,
     pcs |-> <<NumCell(Scale), NumCell(3 * Scale)>>,
     net |-> <<NumCell(8 * Scale), NoneCell>>,
     cbm |-> <<StrCell(<<"2", "*", "3", "*", "4">>), NumCell(15000)>>]

\* no basis column: distribute_values raises ProcessingError
NoBasisTable ==
    [po |-> <<StrCell(<<"B">>)>>, item |-> <<StrCell(<<"X">>)>>,
     unit |-> <<NumCell(Scale)>>, sqft |-> <<NumCell(6)>>,
     amount |-> <<NumCell(Scale)>>, net |-> <<NumCell(Scale)>>,
     cbm |-> <<StrCell(<<"1", "x", "1", "X", "2">>)>>]

\* the header was found but no row under it
EmptyTable == [po |-> <<>>, amount |-> <<>>]

\* a cbm number of 25 digits before the point: process_cbm_column raises
BigCbmTable ==
    [po |-> <<StrCell(<<"C">>)>>, item |-> <<StrCell(<<"X">>)>>,
     unit |-> <<NumCell(Scale)>>, sqft |-> <<NumCell(6)>>,
     amount |-> <<NumCell(Scale)>>, pcs |-> <<NumCell(Scale)>>,
     cbm |-> <<BigCell(1, 0)>>]

\* no quantity column: only the custom aggregator takes the table
NoSqftTable ==
    [po |-> <<NoneCell>>, item |-> <<StrCell(<<"X">>)>>,
     unit |-> <<NumCell(Scale)>>, amount |-> <<NumCell(Scale)>>,
     pcs |-> <<NumCell(Scale)>>]

RunTables == {GoodTable, NoBasisTable, EmptyTable, BigCbmTable, NoSqftTable}

\* what the sheet parser finds: the header rows, the mapped columns and the
\* tables under the headers
Sheet(loaded, rows, mapping, tables) ==
    [loaded |-> loaded, header_rows |-> rows, column_mapping |-> mapping,
     tables |-> tables]

\* worksheets on which one of the four setup checks fails
BrokenSheets ==
    {Sheet(FALSE, <<>>, {}, <<>>), Sheet(TRUE, <<>>, {}, <<>>),
     Sheet(TRUE, <<5>>, {}, <<>>), Sheet(TRUE, <<5>>, {"po", "item"}, <<>>)}

\* worksheets that pass the setup checks, with n tables
GoodSheets(n) == {Sheet(TRUE, <<5>>, AllColumns, t) : t \in [1..n -> RunTables]}

\* the state after the initialisations of lines 213-229
InitRun ==
    /\ CallIdle
    /\ DistIdle
    /\ FobIdle
    /\ use_custom_aggregation = FALSE
    /\ global_standard_aggregation_results = <<>>
    /\ global_custom_aggregation_results = <<>>
    /\ processed_data = <<>>
    /\ folded = EmptyBag
    /\ run_pc = "strategy"
    /\ cfg \in Configs
    /\ input_filename = <<"Unknown">>
    /\ aggregation_mode_used = "standard"
    /\ \/ sheet \in BrokenSheets
       \/ \E n \in 0..NumTables : sheet \in GoodSheets(n)
    /\ header_rows = <<>>
    /\ column_mapping = {}
    /\ all_tables_data = <<>>
    /\ table_index = 0
    /\ data_after_cbm = <<>>
    /\ processed_tables = <<>>
    /\ key_order = <<>>
    /\ global_fob_compounded_result = NoneResult
    /\ fob_runs = 0

\* ------------------------------------------------------------------------
\* run_invoice_automation: the steps
\* ------------------------------------------------------------------------
\* lines 230-249: the strategy is custom when the name of the workbook
\* starts with one of the prefixes; any error selects standard
DetermineStrategy ==
    /\ run_pc = "strategy"
    /\ IF cfg.has_prefixes
       THEN LET name == Basename(cfg.INPUT_EXCEL_FILE)
                prefixes == cfg.CUSTOM_AGGREGATION_WORKBOOK_PREFIXES
                matches == \E k \in 1..Len(prefixes) : StartsWith(name, prefixes[k])
            IN  /\ input_filename' = name
                /\ use_custom_aggregation' = matches
                /\ aggregation_mode_used' = IF matches THEN "custom" ELSE "standard"
       ELSE /\ input_filename' = <<"ErrorDeterminingFilename">>
            /\ use_custom_aggregation' = FALSE
            /\ aggregation_mode_used' = "standard"
    /\ run_pc' = "setup"
    /\ UNCHANGED <<cfg, sheet, header_rows, column_mapping, all_tables_data,
                   table_index, data_after_cbm, processed_tables, key_order,
                   global_fob_compounded_result, fob_runs>>
    /\ UNCHANGED <<global_standard_aggregation_results,
                   global_custom_aggregation_results, processed_data, folded>>
    /\ UNCHANGED <<distVars, fobVars, callVars>>

\* the checks without the one on the 'amount' column
SetupFailsAmountUnchecked ==
    \/ ~sheet.loaded
    \/ sheet.header_rows = <<>>
    \/ sheet.column_mapping = {}

\* lines 257-271: one of the "raise RuntimeError" conditions is met
SetupFails ==
    \/ ~sheet.loaded
    \/ sheet.header_rows = <<>>
    \/ sheet.column_mapping = {}
    \/ "amount" \notin sheet.column_mapping

\* lines 252-270: one of the setup checks raises RuntimeError and the run
\* ends in the except clause
SetupHalts ==
    /\ run_pc = "setup"
    /\ SetupFails
    /\ header_rows' = IF sheet.loaded THEN sheet.header_rows ELSE header_rows
    /\ column_mapping' =
           IF sheet.loaded /\ sheet.header_rows # <<>>
           THEN sheet.column_mapping ELSE column_mapping
    /\ run_pc' = "halted"
    /\ UNCHANGED <<cfg, input_filename, aggregation_mode_used, sheet,
                   all_tables_data, table_index, data_after_cbm,
                   processed_tables, key_order, global_fob_compounded_result,
                   fob_runs>>
    /\ UNCHANGED <<distVars, aggVars, fobVars, callVars>>

\* lines 252-281: the checks pass and the tables are extracted
SetupPasses ==
    /\ run_pc = "setup"
    /\ ~SetupFails
    /\ header_rows' = sheet.header_rows
    /\ column_mapping' = sheet.column_mapping
    /\ all_tables_data' = sheet.tables
    /\ run_pc' = "loop"
    /\ UNCHANGED <<cfg, input_filename, aggregation_mode_used, sheet,
                   table_index, data_after_cbm, processed_tables, key_order,
                   global_fob_compounded_result, fob_runs>>
    /\ UNCHANGED <<distVars, aggVars, fobVars, callVars>>

\* the empty table left out of the record
SkipTableUnrecorded ==
    /\ run_pc = "loop"
    /\ table_index < Len(all_tables_data)
    /\ EmptyOrInvalid(all_tables_data[table_index + 1])
    /\ table_index' = table_index + 1
    /\ UNCHANGED <<run_pc, cfg, input_filename, aggregation_mode_used, sheet,
                   header_rows, column_mapping, all_tables_data,
                   data_after_cbm, processed_tables, key_order,
                   global_fob_compounded_result, fob_runs>>
    /\ UNCHANGED <<distVars, aggVars, fobVars, callVars>>

\* lines 292-295: the next table is empty and is stored as it is
SkipTable ==
    /\ run_pc = "loop"
    /\ table_index < Len(all_tables_data)
    /\ EmptyOrInvalid(all_tables_data[table_index + 1])
    /\ table_index' = table_index + 1
    /\ processed_tables' =
           processed_tables @@ (table_index + 1 :> all_tables_data[table_index + 1])
    /\ UNCHANGED <<run_pc, cfg, input_filename, aggregation_mode_used, sheet,
                   header_rows, column_mapping, all_tables_data,
                   data_after_cbm, key_order, global_fob_compounded_result,
                   fob_runs>>
    /\ UNCHANGED <<distVars, aggVars, fobVars, callVars>>

\* lines 297-303: step 5a on the next table; the table object itself is
\* changed, and an error leaves it as it was
CalculateCbm ==
    /\ run_pc = "loop"
    /\ table_index < Len(all_tables_data)
    /\ ~EmptyOrInvalid(all_tables_data[table_index + 1])
    /\ table_index' = table_index + 1
    /\ LET current_table_data == all_tables_data[table_index + 1]
           after == IF ProcessCbmRaises(current_table_data)
                    THEN current_table_data
                    ELSE ProcessCbmColumn(current_table_data)
       IN  /\ data_after_cbm' = after
           /\ all_tables_data' = [all_tables_data EXCEPT ![table_index + 1] = after]
    /\ run_pc' = "distribute"
    /\ UNCHANGED <<cfg, input_filename, aggregation_mode_used, sheet,
                   header_rows, column_mapping, processed_tables, key_order,
                   global_fob_compounded_result, fob_runs>>
    /\ UNCHANGED <<distVars, aggVars, fobVars, callVars>>

\* lines 305-309: step 5b returns and its table is stored
Distribute ==
    /\ run_pc = "distribute"
    /\ ~DistributeRaises(data_after_cbm)
    /\ LET data_after_distribution ==
               DistributeValues(data_after_cbm, COLUMNS_TO_DISTRIBUTE)
       IN  /\ processed_tables' =
                  processed_tables @@ (table_index :> data_after_distribution)
           /\ all_tables_data' =
                  [all_tables_data EXCEPT ![table_index] = data_after_distribution]
    /\ run_pc' = "aggregate"
    /\ UNCHANGED <<cfg, input_filename, aggregation_mode_used, sheet,
                   header_rows, column_mapping, table_index, data_after_cbm,
                   key_order, global_fob_compounded_result, fob_runs>>
    /\ UNCHANGED <<distVars, aggVars, fobVars, callVars>>

\* the failure ends the loop over the tables
LastIndex == Len(all_tables_data)

\* "continue" in the except clauses: the loop goes on after the table
IndexAfterFailure == table_index

\* lines 310-317: step 5b raises; the table of step 5a is stored and the
\* loop continues with the next table
DistributeFails ==
    /\ run_pc = "distribute"
    /\ DistributeRaises(data_after_cbm)
    /\ processed_tables' = processed_tables @@ (table_index :> data_after_cbm)
    /\ table_index' = IndexAfterFailure
    /\ run_pc' = "loop"
    /\ UNCHANGED <<cfg, input_filename, aggregation_mode_used, sheet,
                   header_rows, column_mapping, all_tables_data,
                   data_after_cbm, key_order, global_fob_compounded_result,
                   fob_runs>>
    /\ UNCHANGED <<distVars, aggVars, fobVars, callVars>>

\* lines 319-338: step 5c, the stored table folded into the map of the strategy
AggregateTable ==
    /\ run_pc = "aggregate"
    /\ LET data_for_aggregation == processed_tables[table_index]
           results == Aggregate(data_for_aggregation, ActiveResults)
       IN  IF DOMAIN data_for_aggregation # {}
           THEN /\ processed_data' = data_for_aggregation
                /\ folded' = folded (+) SetToBag({data_for_aggregation})
                /\ global_custom_aggregation_results' =
                       IF use_custom_aggregation THEN results
                       ELSE global_custom_aggregation_results
                /\ global_standard_aggregation_results' =
                       IF use_custom_aggregation
                       THEN global_standard_aggregation_results ELSE results
                /\ key_order' = KeyOrderAfter(key_order, data_for_aggregation,
                                              ActiveResults, results)
           ELSE UNCHANGED <<processed_data, folded, key_order,
                            global_custom_aggregation_results,
                            global_standard_aggregation_results>>
    /\ run_pc' = "loop"
    /\ UNCHANGED <<cfg, input_filename, aggregation_mode_used, sheet,
                   header_rows, column_mapping, all_tables_data, table_index,
                   data_after_cbm, processed_tables,
                   global_fob_compounded_result, fob_runs>>
    /\ UNCHANGED use_custom_aggregation
    /\ UNCHANGED <<distVars, fobVars, callVars>>

\* the loop left as soon as one table has been taken
AfterFirstTable == table_index >= 1

\* "for table_index, raw_data_dict in all_tables_data.items()" is exhausted
LoopEnded == table_index = Len(all_tables_data)

\* "standard" passed whatever the strategy
AlwaysStandardMode == "standard"

\* the mode argument of the call of perform_fob_compounding (line 349)
ModePassed == aggregation_mode_used

\* lines 343-355: step 6, after the loop: the map of the strategy is
\* compounded in the mode of the strategy
CompoundResults ==
    /\ run_pc = "loop"
    /\ LoopEnded
    /\ LET initial_agg_data_source ==
               IF use_custom_aggregation
               THEN ItemsOf(global_custom_aggregation_results, key_order)
               ELSE ItemsOf(global_standard_aggregation_results, key_order)
           result == PerformFobCompounding(initial_agg_data_source, ModePassed)
       IN  /\ initial_results' = initial_agg_data_source
           /\ aggregation_mode' = ModePassed
           /\ fob_result' = result
           /\ global_fob_compounded_result' = result
    /\ fob_runs' = fob_runs + 1
    /\ run_pc' = "output"
    /\ UNCHANGED <<cfg, input_filename, aggregation_mode_used, sheet,
                   header_rows, column_mapping, all_tables_data, table_index,
                   data_after_cbm, processed_tables, key_order>>
    /\ UNCHANGED <<fob_pc, items, chunk_size, formatted>>
    /\ UNCHANGED <<distVars, aggVars, callVars>>

\* lines 358-462: steps 7 and 8, the results are logged and written out
WriteOutput ==
    /\ run_pc = "output"
    /\ run_pc' = "finished"
    /\ UNCHANGED <<cfg, input_filename, aggregation_mode_used, sheet,
                   header_rows, column_mapping, all_tables_data, table_index,
                   data_after_cbm, processed_tables, key_order,
                   global_fob_compounded_result, fob_runs>>
    /\ UNCHANGED <<distVars, aggVars, fobVars, callVars>>

NextRun ==
    \/ DetermineStrategy
    \/ SetupHalts
    \/ SetupPasses
    \/ SkipTable
    \/ CalculateCbm
    \/ Distribute
    \/ DistributeFails
    \/ AggregateTable
    \/ CompoundResults
    \/ WriteOutput

SpecRun == InitRun /\ [][NextRun]_vars

\* ------------------------------------------------------------------------
\* Claims about the run
\* ------------------------------------------------------------------------
\* the map that the strategy does not use
InactiveResults ==
    IF use_custom_aggregation THEN global_standard_aggregation_results
    ELSE global_custom_aggregation_results

\* compounding has been called
HasCompounded == fob_runs >= 1

\* the strategy is still to be chosen: no table has been touched
BeforeStrategy ==
    run_pc = "strategy" =>
        /\ table_index = 0
        /\ all_tables_data = <<>>
        /\ folded = EmptyBag
        /\ ActiveResults = <<>>

StrategyKept ==
    run_pc # "strategy" =>
        /\ use_custom_aggregation' = use_custom_aggregation
        /\ aggregation_mode_used' = aggregation_mode_used

\* a fold applies the aggregator of the strategy to the map of the strategy
FoldsByStrategy ==
    Folds =>
        /\ ActiveResults' = Aggregate(processed_data', ActiveResults)
        /\ InactiveResults' = InactiveResults

\* compounding was given the map of the strategy, whose keys have the
\* length of the mode, and the mode of the strategy
CompoundsActiveMap ==
    HasCompounded =>
        /\ aggregation_mode = aggregation_mode_used
        /\ aggregation_mode = IF use_custom_aggregation THEN "custom" ELSE "standard"
        /\ Len(initial_results) = Cardinality(DOMAIN ActiveResults)
        /\ \A k \in 1..Len(initial_results) :
              /\ initial_results[k][1] \in DOMAIN ActiveResults
              /\ initial_results[k][2] = ActiveResults[initial_results[k][1]]
              /\ Len(initial_results[k][1]) = IF aggregation_mode = "standard" THEN 3 ELSE 2

\* C13: the strategy is chosen once, before any table is processed, and is
\* kept for the run: every table is folded by the aggregator of the
\* strategy, the map of the other strategy stays empty, and compounding
\* reads the map of the strategy in the matching mode ("standard" with keys
\* of three components, "custom" with keys of two).
C13_OneStrategy ==
    /\ [](BeforeStrategy /\ InactiveResults = <<>> /\ CompoundsActiveMap)
    /\ [][StrategyKept /\ FoldsByStrategy]_vars

\* a run with the custom strategy folded two tables into the custom map
\* and compounded its two keys
C13_Witness ==
    /\ run_pc = "finished"
    /\ use_custom_aggregation
    /\ aggregation_mode = "custom"
    /\ BagCardinality(folded) = 2
    /\ Cardinality(DOMAIN global_custom_aggregation_results) >= 2
    /\ global_standard_aggregation_results = <<>>
    /\ Len(initial_results) >= 2
    /\ global_fob_compounded_result.t = "dict"

\* the run has passed the setup checks
PassedSetup == run_pc \in {"loop", "distribute", "aggregate", "output", "finished"}

\* the step calls perform_fob_compounding
Compounds == fob_runs' # fob_runs

\* the step changes an aggregation map
ChangesMaps ==
    \/ global_standard_aggregation_results' # global_standard_aggregation_results
    \/ global_custom_aggregation_results' # global_custom_aggregation_results

\* C14: in every run that passes the setup checks FOB compounding is
\* executed exactly once, and only after the aggregation step of the last
\* table has finished; no table is aggregated after compounding, and
\* compounding also runs when no table contributed a row.  (At the end of
\* the loop compounding is the only step the run can take, whatever the
\* maps hold, and a run that has finished has compounded once.)
C14_CompoundsOnceAfterLoop ==
    /\ [](fob_runs <= 1)
    /\ [](HasCompounded =>
            /\ PassedSetup
            /\ run_pc \in {"output", "finished"}
            /\ table_index = Len(all_tables_data))
    /\ [](run_pc = "finished" => fob_runs = 1)
    /\ [][Compounds => (run_pc = "loop" /\ table_index = Len(all_tables_data))]_vars
    /\ [][(run_pc = "loop" /\ table_index = Len(all_tables_data)) => Compounds]_vars
    /\ [][(PassedSetup /\ run_pc' \in {"output", "finished"} /\ ~HasCompounded)
            => Compounds]_vars
    /\ [][HasCompounded => (~Folds /\ ~ChangesMaps /\ ~Compounds)]_vars

\* a run of two tables of which none contributed a row (one is empty, the
\* other has no basis column) has compounded once
C14_Witness ==
    /\ run_pc = "finished"
    /\ Len(all_tables_data) = 2
    /\ folded = EmptyBag
    /\ ActiveResults = <<>>
    /\ fob_runs = 1
    /\ initial_results = <<>>
    /\ global_fob_compounded_result.t = "dict"

\* the table that step 5a leaves for the table extracted as t
AfterCbm(t) == IF ProcessCbmRaises(t) THEN t ELSE ProcessCbmColumn(t)

\* the table extracted as t goes through all three steps
GoesThrough(t) == ~EmptyOrInvalid(t) /\ ~DistributeRaises(AfterCbm(t))

\* the loop takes the tables one after the other: the next one only when
\* the steps of the one before are over
OneTableAtATime ==
    /\ table_index' \in {table_index, table_index + 1}
    /\ table_index' = table_index + 1 => run_pc = "loop"

\* step 5b starts on the table that step 5a returned for the next table,
\* step 5c on the table that step 5b returned for it
StepsInOrder ==
    /\ (run_pc' = "distribute" /\ run_pc # "distribute") =>
          /\ run_pc = "loop"
          /\ table_index' = table_index + 1
          /\ data_after_cbm' = AfterCbm(sheet.tables[table_index'])
    /\ (run_pc' = "aggregate" /\ run_pc # "aggregate") =>
          /\ run_pc = "distribute"
          /\ processed_tables'[table_index] =
                 DistributeValues(data_after_cbm, COLUMNS_TO_DISTRIBUTE)
    /\ Folds =>
          /\ run_pc = "aggregate"
          /\ processed_data' = processed_tables[table_index]

\* only a table whose distribution returned is folded
FoldsDistributed ==
    Folds =>
        /\ ~DistributeRaises(data_after_cbm)
        /\ GoesThrough(sheet.tables[table_index])
        /\ processed_data' = DistributeValues(data_after_cbm, COLUMNS_TO_DISTRIBUTE)

\* at the end every table has been stored, and the tables folded are the
\* tables that went through the three steps, whatever happened to the
\* tables before them
AllTablesProcessed ==
    run_pc = "finished" =>
        /\ DOMAIN processed_tables = 1..Len(sheet.tables)
        /\ BagToSet(folded) =
               {processed_tables[k] :
                    k \in {x \in 1..Len(sheet.tables) : GoesThrough(sheet.tables[x])}}
        /\ BagCardinality(folded) =
               Cardinality({x \in 1..Len(sheet.tables) : GoesThrough(sheet.tables[x])})
        /\ \A k \in 1..Len(sheet.tables) :
              processed_tables[k] =
                  IF GoesThrough(sheet.tables[k])
                  THEN DistributeValues(AfterCbm(sheet.tables[k]), COLUMNS_TO_DISTRIBUTE)
                  ELSE IF EmptyOrInvalid(sheet.tables[k]) THEN sheet.tables[k]
                  ELSE AfterCbm(sheet.tables[k])

\* C15: the tables are processed strictly one after another, each in the
\* order CBM parsing, value distribution, aggregation; a table is folded
\* into the map only if its distribution completed without error, and a
\* distribution failure of one table does not keep the later tables from
\* being processed and aggregated.
C15_TablesInSequence ==
    /\ [][OneTableAtATime /\ StepsInOrder /\ FoldsDistributed]_vars
    /\ []AllTablesProcessed

\* the distribution of the first table failed; the second table got its
\* volumes, then its shares of net, and was folded
C15_Witness ==
    /\ run_pc = "finished"
    /\ sheet.tables = <<NoBasisTable, GoodTable>>
    /\ processed_tables[1].cbm = <<NumCell(2 * Scale)>>
    /\ processed_tables[2].cbm = <<NumCell(24 * Scale), NumCell(15000)>>
    /\ processed_tables[2].net = <<NumCell(2 * Scale), NumCell(6 * Scale)>>
    /\ folded = SetToBag({processed_tables[2]})
    /\ \A key \in DOMAIN ActiveResults : key[1] = StrCell(<<"A">>)
    /\ ActiveResults # <<>>

\* ------------------------------------------------------------------------
\* Claims about empty input and about the shape of the result
\* ------------------------------------------------------------------------
\* no table has been aggregated
NoTableAggregated == folded = EmptyBag

\* C19: aggregating zero tables leaves the aggregation map with zero keys,
\* and compounding an empty map returns the record with combined_po = "",
\* combined_item = "", total_sqft = 0 and total_amount = 0 instead of
\* raising or returning nothing.
C19_EmptyInputDefaultRecord ==
    /\ NoTableAggregated =>
          /\ global_standard_aggregation_results = <<>>
          /\ global_custom_aggregation_results = <<>>
    /\ (HasCompounded /\ NoTableAggregated) => initial_results = <<>>
    /\ (HasCompounded /\ initial_results = <<>>) =>
          /\ global_fob_compounded_result.t = "dict"
          /\ global_fob_compounded_result.combined_po = <<>>
          /\ global_fob_compounded_result.combined_item = <<>>
          /\ global_fob_compounded_result.total_sqft = NumCell(0)
          /\ global_fob_compounded_result.total_amount = NumCell(0)

\* a worksheet whose headers have no table under them: the run compounds the
\* empty map and writes the default record
C19_Witness ==
    /\ run_pc = "finished"
    /\ sheet.tables = <<>>
    /\ HasCompounded
    /\ initial_results = <<>>
    /\ global_fob_compounded_result.t = "dict"
    /\ global_fob_compounded_result.total_amount = NumCell(0)

\* perform_fob_compounding called with any map and any mode, or called by
\* run_invoice_automation
InitCompound == InitFob \/ InitRun

NextCompound == NextFob \/ NextRun

SpecCompound == InitCompound /\ [][NextCompound]_vars

\* the mode is one that the function knows
KnownMode == aggregation_mode \in {"standard", "custom"}

\* the result has the four fields
CompleteRecord(result) ==
    /\ result.t = "dict"
    /\ {"combined_po", "combined_item", "total_sqft", "total_amount"}
           \subseteq DOMAIN result
    /\ result.total_sqft.t = "num"
    /\ result.total_amount.t = "num"

\* the run has written its output file
Serialized == PassedSetup /\ run_pc = "finished"

StructureFails ==
    /\ sheet.loaded
    /\ \/ sheet.header_rows = <<>>
       \/ sheet.column_mapping = {}
       \/ "amount" \notin sheet.column_mapping

\* nothing has been extracted, processed, aggregated, compounded or written
NothingDone ==
    /\ all_tables_data = <<>>
    /\ table_index = 0
    /\ data_after_cbm = <<>>
    /\ processed_tables = <<>>
    /\ folded = EmptyBag
    /\ global_standard_aggregation_results = <<>>
    /\ global_custom_aggregation_results = <<>>
    /\ fob_runs = 0
    /\ global_fob_compounded_result.t = "none"
    /\ run_pc \notin {"loop", "distribute", "aggregate", "output", "finished"}

\* C21: when the header locator finds no header row, or the column mapping
\* is empty, or it lacks the 'amount' column, the run stops at that point:
\* no table is extracted or processed, no aggregation map is modified, FOB
\* compounding is not executed and no JSON output is written.
C21_StructuralErrorStops ==
    /\ [](StructureFails => NothingDone)
    /\ [](StructureFails /\ run_pc \notin {"strategy", "setup"} => run_pc = "halted")
    /\ []((run_pc = "halted" /\ sheet.header_rows = <<>>) => column_mapping = {})
    /\ [][run_pc = "halted" => FALSE]_vars

\* the mapping of the header row has no 'amount' column: the run halted
\* after the mapping
C21_Witness ==
    /\ run_pc = "halted"
    /\ header_rows = <<5>>
    /\ column_mapping = {"po", "item"}
    /\ NothingDone

\* ------------------------------------------------------------------------
\* find_all_header_rows (src/main.py)
\* ------------------------------------------------------------------------
MaxSheetRows == 3

\* str(cell.value)
CellStr(value) == IF value.t = "str" THEN value.s ELSE IntStr(value)

\* re.compile raises re.error: of the patterns used, the one with a
\* parenthesis that is not closed
PatternInvalid(search_pattern) ==
    \E k \in 1..Len(search_pattern) : search_pattern[k] = "("

\* one alternative of a pattern: literal characters between an optional ^
\* and an optional $
Alternative(text) ==
    LET from_start == text # <<>> /\ Head(text) = "^"
        rest == IF from_start THEN Tail(text) ELSE text
        to_end == rest # <<>> /\ rest[Len(rest)] = "$"
    IN  [from_start |-> from_start, to_end |-> to_end,
         literal |-> IF to_end THEN SubSeq(rest, 1, Len(rest) - 1) ELSE rest]

\* the alternative matches somewhere in str, letters compared without case
AlternativeFound(alt, str) ==
    \E p \in 1..(Len(str) + 1) :
        /\ p + Len(alt.literal) - 1 <= Len(str)
        /\ Lower(SubSeq(str, p, p + Len(alt.literal) - 1)) = Lower(alt.literal)
        /\ alt.from_start => p = 1
        /\ alt.to_end => p + Len(alt.literal) - 1 = Len(str)

\* regex.search(str) for re.compile(search_pattern, re.IGNORECASE)
RegexSearch(search_pattern, str) ==
    LET alts == Split(search_pattern, {"|"})
    IN  \E k \in 1..Len(alts) : AlternativeFound(Alternative(alts[k]), str)

Min(a, b) == IF a <= b THEN a ELSE b

\* only the first column of the window is looked at
FirstCellIsHeader(sheet_grid, search_pattern, r_idx, max_col_to_search) ==
    /\ max_col_to_search >= 1
    /\ sheet_grid.cells[r_idx][1].t # "none"
    /\ RegexSearch(search_pattern, Strip(CellStr(sheet_grid.cells[r_idx][1])))

\* the inner loop over the columns of a row breaks on a cell that matches
RowIsHeader(sheet_grid, search_pattern, r_idx, max_col_to_search) ==
    \E c_idx \in 1..max_col_to_search :
        /\ sheet_grid.cells[r_idx][c_idx].t # "none"
        /\ RegexSearch(search_pattern,
                       Strip(CellStr(sheet_grid.cells[r_idx][c_idx])))

\* the loop over the rows from r_idx on
RECURSIVE ScanRows(_, _, _, _, _, _)
ScanRows(sheet_grid, search_pattern, r_idx, max_row_to_search, max_col_to_search, found) ==
    IF r_idx > max_row_to_search THEN found
    ELSE ScanRows(sheet_grid, search_pattern, r_idx + 1, max_row_to_search,
                  max_col_to_search,
                  IF /\ RowIsHeader(sheet_grid, search_pattern, r_idx,
                                    max_col_to_search)
                     /\ \A k \in 1..Len(found) : found[k] # r_idx
                  THEN Append(found, r_idx) ELSE found)

\* list.sort() of row numbers
RECURSIVE SortRows(_)
SortRows(rows) ==
    IF rows = <<>> THEN <<>>
    ELSE LET low == CHOOSE k \in 1..Len(rows) :
                        \A m \in 1..Len(rows) : rows[k] <= rows[m]
         IN  <<rows[low]>> \o
             SortRows([k \in 1..(Len(rows) - 1) |->
                           IF k < low THEN rows[k] ELSE rows[k + 1]])

\* find_all_header_rows(sheet, search_pattern, row_range, col_range)
FindAllHeaderRows(sheet_grid, search_pattern, row_range, col_range) ==
    IF PatternInvalid(search_pattern) THEN <<>>
    ELSE SortRows(ScanRows(sheet_grid, search_pattern, 1,
                           Min(row_range, sheet_grid.max_row),
                           Min(col_range, sheet_grid.max_column), <<>>))

\* rows of a worksheet of two columns: blank, a header, a header with
\* spaces around it in the second column, data, and a header behind a cell
\* of one space
GridRows ==
    {<<NoneCell, NoneCell>>,
     <<StrCell(<<"P", "O">>), NoneCell>>,
     <<NoneCell, StrCell(<<" ", "p", "o", " ">>)>>,
     <<StrCell(<<"x", "P", "O">>), NumCell(12 * Scale)>>,
     <<StrCell(<<" ">>), StrCell(<<"P", "O">>)>>}

\* worksheets of n rows
Grids(n) ==
    {[max_row |-> n, max_column |-> 2, cells |-> c] : c \in [1..n -> GridRows]}

\* a literal, an anchored literal, two alternatives, the empty pattern and
\* a pattern that does not compile
SearchPatterns ==
    {<<"p", "o">>, <<"^", "p", "o", "$">>, <<"p", "o", "|", "1", "2">>,
     <<>>, <<"(", "p", "o">>}

InitLocate ==
    /\ DistIdle
    /\ AggIdle
    /\ RunIdle
    /\ FobIdle
    /\ call_pc = "find_all_header_rows"
    /\ \E n \in 0..MaxSheetRows : \E g \in Grids(n) :
          \E p \in SearchPatterns :
              \E rr \in 0..(n + 1) : \E cr \in 0..3 :
                  call_args = [sheet |-> g, search_pattern |-> p,
                               row_range |-> rr, col_range |-> cr]
    /\ call_result = <<>>

\* header_rows = find_all_header_rows(sheet, pattern, row_range, col_range)
LocateHeaders ==
    /\ call_pc = "find_all_header_rows"
    /\ call_result' = FindAllHeaderRows(call_args.sheet, call_args.search_pattern,
                                        call_args.row_range, call_args.col_range)
    /\ call_pc' = "header_rows_returned"
    /\ UNCHANGED call_args
    /\ UNCHANGED <<distVars, aggVars, runVars, fobVars>>

NextLocate == LocateHeaders

SpecLocate == InitLocate /\ [][NextLocate]_vars

\* the pattern compiles and is found in the text
Matches(search_pattern, text) ==
    /\ ~PatternInvalid(search_pattern)
    /\ RegexSearch(search_pattern, text)

\* the rows of the window with a cell that has a value whose stripped
\* string form matches the pattern
QualifyingRows ==
    {r \in 1..Min(call_args.row_range, call_args.sheet.max_row) :
        \E c \in 1..Min(call_args.col_range, call_args.sheet.max_column) :
            /\ call_args.sheet.cells[r][c] # NoneCell
            /\ Matches(call_args.search_pattern,
                       Strip(CellStr(call_args.sheet.cells[r][c])))}

\* two tables one under the other, a header row above each
StackedTables ==
    /\ call_args.sheet.cells =
           <<  <<StrCell(<<"P", "O">>), NoneCell>>,
               <<StrCell(<<"x", "P", "O">>), NumCell(12 * Scale)>>,
               <<StrCell(<<"P", "O">>), NoneCell>>  >>
    /\ call_args.search_pattern = <<"^", "p", "o", "$">>
    /\ call_args.row_range >= 3
    /\ call_args.col_range >= 1

\* C22: find_all_header_rows returns exactly the rows r with
\* 1 <= r <= min(row_range, max_row) that have at least one non-empty cell
\* in columns 1..min(col_range, max_column) whose stripped string form
\* matches the pattern case-insensitively: each such row once, in ascending
\* order, and no other row; a sheet with two stacked tables, each preceded
\* by a matching header row, yields exactly those two indices.
C22_HeaderRowsFound ==
    call_pc = "header_rows_returned" =>
        /\ {call_result[k] : k \in 1..Len(call_result)} = QualifyingRows
        /\ Len(call_result) = Cardinality(QualifyingRows)
        /\ \A k \in 1..(Len(call_result) - 1) : call_result[k] < call_result[k + 1]
        /\ StackedTables => call_result = <<1, 3>>

\* the two header rows of two stacked tables are returned; the header of
\* the data row between them is not one
C22_Witness ==
    /\ call_pc = "header_rows_returned"
    /\ StackedTables
    /\ call_result = <<1, 3>>

\* ------------------------------------------------------------------------
\* map_columns_to_headers (src/main.py)
\* ------------------------------------------------------------------------
MaxHeaderCols == 3

\* "x.lower().strip()"
Normalized(text) == Strip(Lower(text))

\* lines 157-169: the lookup after one more variation of a canonical name;
\* a variation that is registered already keeps its canonical name
Register(lookup, variation, canonical_name) ==
    LET variation_lower == Normalized(variation)
    IN  IF variation_lower = <<>> \/ variation_lower \in DOMAIN lookup
        THEN lookup
        ELSE lookup @@ (variation_lower :> canonical_name)

\* the variations of one canonical name, from the k-th on
RECURSIVE RegisterAll(_, _, _, _)
RegisterAll(lookup, variations, k, canonical_name) ==
    IF k > Len(variations) THEN lookup
    ELSE RegisterAll(Register(lookup, variations[k], canonical_name),
                     variations, k + 1, canonical_name)

\* lines 143-169: variation_to_canonical_lookup, built over the entries of
\* TARGET_HEADERS_MAP in their order, from the e-th on
RECURSIVE BuildLookup(_, _, _)
BuildLookup(headers_map, e, lookup) ==
    IF e > Len(headers_map) THEN lookup
    ELSE BuildLookup(headers_map, e + 1,
                     RegisterAll(lookup, headers_map[e].variations, 1,
                                 headers_map[e].name))

\* the later column replaces the earlier one
OverwriteColumn(mapping, canonical, col_idx) ==
    [n \in (DOMAIN mapping) \cup {canonical} |->
        IF n = canonical THEN col_idx ELSE mapping[n]]

\* lines 186-196: the column is assigned unless the canonical name has one
AssignColumn(mapping, canonical, col_idx) ==
    IF canonical \in DOMAIN mapping THEN mapping
    ELSE mapping @@ (canonical :> col_idx)

\* lines 173-205: the loop over the columns of the header row, from col_idx on
RECURSIVE ScanHeaderCells(_, _, _, _, _)
ScanHeaderCells(cells, lookup, col_idx, max_col_to_check, mapping) ==
    IF col_idx > max_col_to_check THEN mapping
    ELSE LET cell_value == cells[col_idx]
             actual_header_text ==
                 IF cell_value.t = "none" THEN <<>>
                 ELSE Normalized(CellStr(cell_value))
         IN  ScanHeaderCells(cells, lookup, col_idx + 1, max_col_to_check,
                 IF actual_header_text # <<>> /\ actual_header_text \in DOMAIN lookup
                 THEN AssignColumn(mapping, lookup[actual_header_text], col_idx)
                 ELSE mapping)

\* map_columns_to_headers(sheet, header_row, col_range), the header row
\* given by its cells and TARGET_HEADERS_MAP by its entries
MapColumnsToHeaders(cells, headers_map, col_range) ==
    ScanHeaderCells(cells, BuildLookup(headers_map, 1, <<>>), 1,
                    Min(col_range, Len(cells)), <<>>)

\* TARGET_HEADERS_MAP: one synonym of 'item' is claimed by 'po' before it,
\* and 'po' has two synonyms; or no entry at all, as in src/main.py
HeaderMaps ==
    {<<[name |-> "po", variations |-> <<<<"P", "O">>, <<"p", ".", "o">>>>],
       [name |-> "item", variations |-> <<<<"i", "t", "e", "m">>, <<"p", "o">>>>],
       [name |-> "amount", variations |-> <<<<"a", "m", "o", "u", "n", "t">>, <<" ">>>>]>>,
     <<>>}

\* cells of a header row
HeaderCells ==
    {NoneCell, StrCell(<<"P", "O">>), StrCell(<<" ", "p", "o", " ">>),
     StrCell(<<"P", ".", "O">>), StrCell(<<"I", "T", "E", "M">>),
     StrCell(<<"A", "m", "o", "u", "n", "t">>), StrCell(<<"x">>),
     StrCell(<<" ">>)}

InitMap ==
    /\ DistIdle
    /\ AggIdle
    /\ RunIdle
    /\ FobIdle
    /\ call_pc = "map_columns_to_headers"
    /\ \E n \in 0..MaxHeaderCols : \E c \in [1..n -> HeaderCells] :
          \E h \in HeaderMaps : \E cr \in 0..(n + 1) :
              call_args = [cells |-> c, headers_map |-> h, col_range |-> cr]
    /\ call_result = <<>>

\* column_mapping = map_columns_to_headers(sheet, header_row, col_range)
MapColumns ==
    /\ call_pc = "map_columns_to_headers"
    /\ call_result' = MapColumnsToHeaders(call_args.cells, call_args.headers_map,
                                          call_args.col_range)
    /\ call_pc' = "column_mapping_returned"
    /\ UNCHANGED call_args
    /\ UNCHANGED <<distVars, aggVars, runVars, fobVars>>

NextMap == MapColumns

SpecMap == InitMap /\ [][NextMap]_vars

\* the entry of the map that registered the text first has this name
ResolvesTo(text, name) ==
    LET h == call_args.headers_map
        Claims(e) == \E v \in 1..Len(h[e].variations) :
                         Normalized(h[e].variations[v]) = text
    IN  /\ text # <<>>
        /\ \E e \in 1..Len(h) :
              /\ Claims(e)
              /\ h[e].name = name
              /\ \A d \in 1..(e - 1) : ~Claims(d)

\* the columns of the window whose header text resolves to the name
ColumnsOf(name) ==
    {c \in 1..Min(call_args.col_range, Len(call_args.cells)) :
        /\ call_args.cells[c] # NoneCell
        /\ ResolvesTo(Normalized(CellStr(call_args.cells[c])), name)}

CanonicalNames ==
    {call_args.headers_map[e].name : e \in 1..Len(call_args.headers_map)}

\* C23: when several columns of the header row carry texts that resolve to
\* the same canonical name, the name is mapped to the leftmost such column
\* and later columns never overwrite it; so each canonical name maps to at
\* most one column and no column index is the image of two canonical names.
C23_FirstColumnWins ==
    call_pc = "column_mapping_returned" =>
        /\ DOMAIN call_result = {n \in CanonicalNames : ColumnsOf(n) # {}}
        /\ \A n \in DOMAIN call_result :
              /\ call_result[n] \in ColumnsOf(n)
              /\ \A c \in ColumnsOf(n) : call_result[n] <= c
        /\ \A n1 \in DOMAIN call_result : \A n2 \in DOMAIN call_result :
              call_result[n1] = call_result[n2] => n1 = n2

\* three columns: "P.O", " po " and "ITEM"; 'po' keeps column 1 and 'item'
\* gets column 3
C23_Witness ==
    /\ call_pc = "column_mapping_returned"
    /\ call_args.cells = <<StrCell(<<"P", ".", "O">>),
                           StrCell(<<" ", "p", "o", " ">>),
                           StrCell(<<"I", "T", "E", "M">>)>>
    /\ call_args.col_range = 3
    /\ call_result = ("po" :> 1) @@ ("item" :> 3)

\* ------------------------------------------------------------------------
\* _convert_to_decimal called on its own
\* ------------------------------------------------------------------------
MaxTextLen == 3

\* the characters of the texts: a space, the signs, the point, two digits
\* and a letter
TextChars == {" ", "-", "+", ".", "1", "5", "a"}

Texts == UNION {[1..n -> TextChars] : n \in 0..MaxTextLen}

\* texts that name a special value of decimal.Decimal, and one that does not
SpecialTexts ==
    {<<"N", "a", "N">>, <<" ", "n", "a", "n", " ">>, <<"-", "i", "n", "f">>,
     <<"I", "n", "f", "i", "n", "i", "t", "y">>, <<"s", "N", "a", "N">>,
     <<"i", "n", "f", "1">>}

\* None, decimals (a large one too), ints and strings
ConvertValues ==
    {NoneCell, NumCell(0), NumCell(15000), NumCell(0 - Scale), BigCell(1, 5)}
        \cup {IntCell(k) : k \in {0 - 12, 0, 7}}
        \cup {StrCell(text) : text \in Texts \cup SpecialTexts}

InitConvert ==
    /\ DistIdle
    /\ AggIdle
    /\ RunIdle
    /\ FobIdle
    /\ call_pc = "_convert_to_decimal"
    /\ \E v \in ConvertValues : call_args = [value |-> v]
    /\ call_result = <<>>

\* call_result = _convert_to_decimal(value)
Convert ==
    /\ call_pc = "_convert_to_decimal"
    /\ call_result' = ConvertToDecimal(call_args.value)
    /\ call_pc' = "decimal_returned"
    /\ UNCHANGED call_args
    /\ UNCHANGED <<distVars, aggVars, runVars, fobVars>>

NextConvert == Convert

SpecConvert == InitConvert /\ [][NextConvert]_vars

\* the text between its first and its last character that is not a space
Trimmed(text) ==
    LET inked == {k \in 1..Len(text) : text[k] # " "}
    IN  IF inked = {} THEN <<>>
        ELSE SubSeq(text, CHOOSE k \in inked : \A m \in inked : k <= m,
                          CHOOSE k \in inked : \A m \in inked : m <= k)

\* the string form of the value
StringForm(value) == IF value.t = "str" THEN value.s ELSE IntStr(value)

\* the text without a sign in front
Unsigned(text) ==
    IF text # <<>> /\ Head(text) \in {"-", "+"} THEN Tail(text) ELSE text

\* the text is a number: an optional sign, then digits with at most one
\* point among them, one digit at least
IsNumber(text) ==
    LET body == Unsigned(text)
    IN  /\ \A k \in 1..Len(body) : body[k] \in Digits \cup {"."}
        /\ Cardinality({k \in 1..Len(body) : body[k] = "."}) <= 1
        /\ \E k \in 1..Len(body) : body[k] \in Digits

\* the digits of the text, the point left out, and the number of digits
\* behind the point
DigitsOf(text) == SelectSeq(Unsigned(text), LAMBDA ch : ch \in Digits)

FractionDigits(text) ==
    LET body == Unsigned(text)
    IN  IF \E k \in 1..Len(body) : body[k] = "."
        THEN Len(body) - (CHOOSE k \in 1..Len(body) : body[k] = ".")
        ELSE 0

\* the decimal has exactly the value that the text writes
ExactlyWritten(text, dec) ==
    /\ dec.t = "num"
    /\ dec.hi = 0
    /\ dec.n * Pow10(FractionDigits(text)) =
           (IF Head(text) = "-" THEN 0 - 1 ELSE 1)
               * DigitsValue(DigitsOf(text)) * Scale

\* the text names a special value: NaN, sNaN or an infinity, with or
\* without a sign, in any case
IsSpecialName(text) ==
    Lower(Unsigned(text)) \in
        {<<"n", "a", "n">>, <<"s", "n", "a", "n">>, <<"i", "n", "f">>,
         <<"i", "n", "f", "i", "n", "i", "t", "y">>}

\* C24: _convert_to_decimal never raises for any input value: an
\* already-decimal value is returned as is, None and empty or
\* whitespace-only strings yield the missing result (None, not zero), a
\* string that is not a number yields the missing result, and every other
\* value yields the exact decimal of its trimmed string form.
C24_ConvertNeverRaises ==
    call_pc = "decimal_returned" =>
        LET value == call_args.value
            text == Trimmed(StringForm(value))
        IN  IF value.t = "num" THEN call_result = value
            ELSE IF value.t = "none" THEN call_result = NoneCell
            ELSE IF text = <<>> THEN call_result = NoneCell
            ELSE IF ~IsNumber(text) THEN call_result = NoneCell
            ELSE ExactlyWritten(text, call_result)

\* what the code does: the strings that yield the missing result are those
\* that decimal.Decimal does not accept; the names of the special values are
\* accepted and yield the NaN or the infinite decimal
ConvertAcceptsSpecialNames ==
    call_pc = "decimal_returned" =>
        LET value == call_args.value
            text == Trimmed(StringForm(value))
        IN  IF value.t = "num" THEN call_result = value
            ELSE IF value.t = "none" THEN call_result = NoneCell
            ELSE IF text = <<>> THEN call_result = NoneCell
            ELSE IF IsNumber(text) THEN ExactlyWritten(text, call_result)
            ELSE IF IsSpecialName(text) THEN call_result.t = "special"
            ELSE call_result = NoneCell

\* "-inf" is the decimal -Infinity, not the missing result
SpecialNameConverted ==
    /\ call_pc = "decimal_returned"
    /\ call_args.value = StrCell(<<"-", "i", "n", "f">>)
    /\ call_result = SpecialCell(<<"-", "I", "n", "f", "i", "n", "i", "t", "y">>)

\* " -.5" with a space in front is the decimal -0.5
SignedFractionConverted ==
    /\ call_pc = "decimal_returned"
    /\ MaxTextLen >= 3
    /\ \E text \in Texts :
          /\ Len(text) >= 3
          /\ SubSeq(text, Len(text) - 2, Len(text)) = <<"-", ".", "5">>
          /\ \A k \in 1..(Len(text) - 3) : text[k] = " "
          /\ call_args.value = StrCell(text)
    /\ call_result = NumCell(0 - 5000)

\* ------------------------------------------------------------------------
\* _calculate_single_cbm called on a string cell
\* ------------------------------------------------------------------------
\* the largest number of parts of a dimension string
MaxParts == 3

\* the texts between the separators
CbmDims ==
    {<<"2", ".", "5">>, <<"3", ".", "0">>, <<"1", ".", "2">>,
     <<"-", "2", ".", "5">>, <<"0">>, <<"0", ".", "0", "5">>,
     <<" ", "4", " ">>, <<"b", "a", "d">>, <<"1", "E", "2", "8">>,
     <<"N", "a", "N">>, <<"i", "n", "f">>}

CbmSeparators == {"*", "x", "X"}

\* the parts written one after the other with the separators between them
RECURSIVE JoinParts(_, _, _)
JoinParts(dims, seps, n) ==
    IF n = 1 THEN dims[1]
    ELSE JoinParts(dims, seps, n - 1) \o <<seps[n - 1]>> \o dims[n]

InitCbm ==
    /\ DistIdle
    /\ AggIdle
    /\ RunIdle
    /\ FobIdle
    /\ call_pc = "_calculate_single_cbm"
    /\ \E n \in 1..MaxParts :
          \E dims \in [1..n -> CbmDims] :
             \E seps \in [1..(n - 1) -> CbmSeparators] :
                call_args = [cbm_value |-> StrCell(JoinParts(dims, seps, n))]
    /\ call_result = <<>>

\* call_result = _calculate_single_cbm(cbm_value, row_index)
CalculateOneCbm ==
    /\ call_pc = "_calculate_single_cbm"
    /\ call_result' = CalculateSingleCbm(call_args.cbm_value)
    /\ call_pc' = "cbm_returned"
    /\ UNCHANGED call_args
    /\ UNCHANGED <<distVars, aggVars, runVars, fobVars>>

NextCbm == CalculateOneCbm

SpecCbm == InitCbm /\ [][NextCbm]_vars

\* the parts of the statement: the split on '*' when it gives three parts,
\* otherwise the split on 'x' and 'X'
ClaimedParts(text) ==
    IF Len(Split(text, {"*"})) = 3 THEN Split(text, {"*"})
    ELSE Split(text, {"x", "X"})

DimensionOf(part) == ConvertToDecimal(StrCell(part))

ThreeDecimals(parts) ==
    Len(parts) = 3 /\ \A k \in 1..3 : ~IsNone(DimensionOf(parts[k]))

\* the three parts are numbers below 10^24, written in hundredths
ThreeNumbers(parts) ==
    \A k \in 1..3 : /\ DimensionOf(parts[k]).t = "num"
                    /\ DimensionOf(parts[k]).hi = 0
                    /\ DimensionOf(parts[k]).n % 100 = 0

\* the exact product of three such numbers, in millionths, rounded half-up
\* (ties away from zero) to quanta of 0.0001
ExactVolume(parts) ==
    LET millionths == (DimensionOf(parts[1]).n \div 100)
                      * (DimensionOf(parts[2]).n \div 100)
                      * (DimensionOf(parts[3]).n \div 100)
    IN  IF millionths >= 0 THEN (millionths + 50) \div 100
        ELSE 0 - ((50 - millionths) \div 100)

\* C25 as stated: a string cell gives a value exactly when the split gives
\* three parts that all convert to decimal, and the value is then the product
\* of the three rounded half-up to 4 decimal places; otherwise it is missing.
C25_ProductOfThreeParts ==
    call_pc = "cbm_returned" =>
        LET parts == ClaimedParts(call_args.cbm_value.s)
        IN  IF ThreeDecimals(parts)
            THEN /\ ~IsNone(call_result)
                 /\ ThreeNumbers(parts) => call_result = NumCell(ExactVolume(parts))
            ELSE IsNone(call_result)

\* a part that decimal.Decimal reads as NaN or as an infinity
SpecialPart(part) == DimensionOf(part).t = "special"

ZeroPart(part) == DimensionOf(part) = NumCell(0)

\* the product of three numbers is 10^24 or more in magnitude
HugeProduct(parts) ==
    /\ \A k \in 1..3 : ~ZeroPart(parts[k])
    /\ \/ Cardinality({k \in 1..3 : DimensionOf(parts[k]).hi # 0}) >= 2
       \/ \E k \in 1..3 :
             /\ DimensionOf(parts[k]).hi # 0
             /\ \A m \in (1..3) \ {k} : DimensionOf(parts[m]).n % 100 = 0
             /\ \E m1, m2 \in (1..3) \ {k} :
                   /\ m1 < m2
                   /\ DimensionOf(parts[k]).hi
                        * Abs(DimensionOf(parts[m1]).n \div 100)
                        * Abs(DimensionOf(parts[m2]).n \div 100) >= 10000

\* C25 (amended): three parts that all convert to numbers whose product is
\* below 10^24 in magnitude give that product rounded half-up to 4 decimal
\* places; three numbers with a larger product give the missing result, as
\* does every string that does not split into three decimals; three decimals
\* of which one is a NaN or an infinity give NaN or the missing result.
C25_ProductWithinContext ==
    call_pc = "cbm_returned" =>
        LET parts == ClaimedParts(call_args.cbm_value.s)
        IN  IF ~ThreeDecimals(parts) THEN IsNone(call_result)
            ELSE IF \E k \in 1..3 : SpecialPart(parts[k])
            THEN call_result.t \in {"none", "special"}
            ELSE IF HugeProduct(parts) THEN IsNone(call_result)
            ELSE IF \E k \in 1..3 : ZeroPart(parts[k])
            THEN call_result = NumCell(0)
            ELSE ThreeNumbers(parts) /\ call_result = NumCell(ExactVolume(parts))

\* "2.5x3.0x1.2" gives 9.0000
C25_Witness ==
    /\ call_pc = "cbm_returned"
    /\ call_args.cbm_value
         = StrCell(<<"2", ".", "5", "x", "3", ".", "0", "x", "1", ".", "2">>)
    /\ call_result = NumCell(9 * Scale)

\* "1E28*2.5*1.2": three parts that convert, and the result is missing
HugeProductMissing ==
    /\ call_pc = "cbm_returned"
    /\ call_args.cbm_value
         = StrCell(<<"1", "E", "2", "8", "*", "2", ".", "5", "*", "1", ".", "2">>)
    /\ IsNone(call_result)

\* "0.05x0.05x-2.5" is -0.00625 and gives -0.0063
TieRoundedAwayFromZero ==
    /\ call_pc = "cbm_returned"
    /\ call_args.cbm_value
         = StrCell(<<"0", ".", "0", "5", "x", "0", ".", "0", "5", "x",
                     "-", "2", ".", "5">>)
    /\ call_result = NumCell(0 - 63)

\* ------------------------------------------------------------------------
\* The record of the tables at the end of the loop
\* ------------------------------------------------------------------------
\* a table that yielded no rows: every column is an empty list
ZeroRows(t) == \A c \in DOMAIN t : Len(t[c]) = 0

\* the loop over the tables has been left
LoopOver ==
    \/ run_pc \in {"output", "finished"}
    \/ run_pc = "loop" /\ table_index = Len(sheet.tables)

\* the distribution of the extracted table t is reached and raises
DistributionFailed(t) == ~ZeroRows(t) /\ basis_column \notin DOMAIN AfterCbm(t)

\* after the loop every index of an extracted table has its entry; a table
\* without rows is stored as it was extracted, a table whose distribution
\* failed as step 5a left it
EveryTableRecorded ==
    LoopOver =>
        /\ DOMAIN processed_tables = 1..Len(sheet.tables)
        /\ \A k \in 1..Len(sheet.tables) :
              /\ ZeroRows(sheet.tables[k]) => processed_tables[k] = sheet.tables[k]
              /\ DistributionFailed(sheet.tables[k]) =>
                     processed_tables[k] = AfterCbm(sheet.tables[k])

\* the step that takes a table without rows stores it and goes on to the
\* next table: no CBM parsing, no distribution, no aggregation
ZeroRowTableSkipsSteps ==
    (table_index' = table_index + 1 /\ ZeroRows(sheet.tables[table_index'])) =>
        /\ run_pc' = "loop"
        /\ processed_tables' =
               processed_tables @@ (table_index' :> sheet.tables[table_index'])
        /\ UNCHANGED <<all_tables_data, data_after_cbm, aggVars, key_order>>

\* C26: at the end of the loop processed_tables has one entry for every
\* extracted table index; a table with zero rows is recorded and skips CBM,
\* distribution and aggregation, a table whose distribution failed is
\* recorded with its post-CBM data, and no extracted table is omitted.
C26_EveryTableRecorded ==
    /\ []EveryTableRecorded
    /\ [][ZeroRowTableSkipsSteps]_vars

\* a table without rows and a table without the basis column: both are in
\* the record, the second with its volumes, and nothing was aggregated
C26_Witness ==
    /\ run_pc = "finished"
    /\ sheet.tables = <<EmptyTable, NoBasisTable>>
    /\ DOMAIN processed_tables = {1, 2}
    /\ processed_tables[1] = EmptyTable
    /\ processed_tables[2].cbm = <<NumCell(2 * Scale)>>
    /\ processed_tables[2] # NoBasisTable
    /\ folded = EmptyBag

\* ------------------------------------------------------------------------
\* The validation of the standard aggregator
\* ------------------------------------------------------------------------
\* the table is one of those that the standard aggregator does not take: not
\* a dict, a required column lacking, columns of unequal length, or no rows
RejectedByStandard(table) ==
    \/ "t" \in DOMAIN table
    \/ \E c \in {"po", "item", "unit", "sqft", "amount"} : c \notin DOMAIN table
    \/ \E c \in {"item", "unit", "sqft", "amount"} : Len(table[c]) # Len(table.po)
    \/ Len(table.po) = 0

\* the call of the standard aggregator either leaves the map as it was or
\* adds every row of the table
AllOrNothing ==
    (Folds /\ ~use_custom_aggregation) =>
        IF RejectedByStandard(processed_data')
        THEN global_standard_aggregation_results' = global_standard_aggregation_results
        ELSE DOMAIN global_standard_aggregation_results' =
                 DOMAIN global_standard_aggregation_results
                 \cup {StandardKey(processed_data', r) :
                           r \in 1..Len(processed_data'.po)}

\* C27: aggregate_standard_by_po_item_price is all-or-nothing per table: for
\* a table that is not a dict, lacks one of po, item, unit, sqft, amount, has
\* columns of unequal length or has no rows, the map keeps exactly the keys
\* and sums it had; the validation is over before the first row is added.
C27_AllOrNothing == [][AllOrNothing]_vars

\* a table whose amount column is one cell short came second: its first row,
\* complete as it is, was not added
C27_Witness ==
    /\ ~use_custom_aggregation
    /\ processed_data = ShortAmountTable
    /\ folded = SetToBag({TableOf(<<PaddedRow>>)}) (+) SetToBag({ShortAmountTable})
    /\ DOMAIN global_standard_aggregation_results =
           {<<StrCell(<<"A">>), StrCell(<<"X">>), NumCell(2 * Scale)>>}
    /\ \A key \in DOMAIN global_standard_aggregation_results :
          global_standard_aggregation_results[key] =
              [sqft_sum |-> NumCell(0 - 1), amount_sum |-> NumCell(0)]

\* ------------------------------------------------------------------------
\* The columns that distribute_values leaves alone
\* ------------------------------------------------------------------------
\* the table keeps its columns, and a column that is not listed, the basis
\* column included, holds what it held when the call began
UnlistedColumnsKept ==
    /\ DOMAIN raw_data = DOMAIN input_data
    /\ \A c \in DOMAIN raw_data :
          (\A p \in 1..Len(columns_to_distribute) : columns_to_distribute[p] # c)
              => raw_data[c] = input_data[c]

\* when the call has returned, a listed column holds what the call with
\* that column alone gives for it
ListedColumnsAlone ==
    pc = "done" =>
        \A p \in 1..Len(columns_to_distribute) :
            columns_to_distribute[p] \in DOMAIN input_data =>
                raw_data[columns_to_distribute[p]] =
                    DistributeValues(input_data,
                                     <<columns_to_distribute[p]>>)[columns_to_distribute[p]]

\* C28: distribute_values changes only the columns named in
\* columns_to_distribute: every other column, and the basis column when it
\* is not listed, is unchanged, and the result for a listed column does not
\* depend on which other columns are listed or on their order.
C28_OnlyListedColumnsChange == UnlistedColumnsKept /\ ListedColumnsAlone

\* the basis column and net are listed, gross is not: net got its shares
\* from the basis as it was when the call began, gross kept its blank
C28_Witness ==
    /\ pc = "done"
    /\ calls = 1
    /\ columns_to_distribute = <<"pcs", "net">>
    /\ input_data = [pcs |-> <<NumCell(1), NumCell(5)>>,
                     net |-> <<NumCell(0 - 3), StrCell(<<" ">>)>>,
                     gross |-> <<NumCell(1), NoneCell>>]
    /\ raw_data.net = <<NumCell(0 - 1), NumCell(0 - 3)>>
    /\ raw_data.gross = <<NumCell(1), NoneCell>>

\* ------------------------------------------------------------------------
\* Both aggregators on the same tables, each with its own map
\* ------------------------------------------------------------------------
InitBoth ==
    /\ InitAgg
    /\ ~use_custom_aggregation

\* the table is handed to aggregate_standard_by_po_item_price and to
\* aggregate_custom_by_po_item
FoldBoth ==
    /\ pc = "aggregate"
    /\ \E t \in AggTables :
          /\ BagCardinality(folded) < NumTables
          /\ processed_data' = t
          /\ global_standard_aggregation_results' =
                 AggregateStandard(t, global_standard_aggregation_results)
          /\ global_custom_aggregation_results' =
                 AggregateCustom(t, global_custom_aggregation_results)
          /\ folded' = folded (+) SetToBag({t})
    /\ UNCHANGED use_custom_aggregation
    /\ UNCHANGED <<distVars, runVars, fobVars, callVars>>

NextBoth == FoldBoth

SpecBoth == InitBoth /\ [][NextBoth]_vars

\* a table with po, item, unit, sqft and amount, all of one length
FiveColumns(table) ==
    /\ {"po", "item", "unit", "sqft", "amount"} \subseteq DOMAIN table
    /\ \A c \in {"item", "unit", "sqft", "amount"} : Len(table[c]) = Len(table.po)

\* the key of the standard map without its price
DropPrice(key) == <<key[1], key[2]>>

\* the sums of the standard map under the keys of the set, added exactly
RECURSIVE SumOverPrices(_, _)
SumOverPrices(keys, field) ==
    IF keys = {} THEN NumCell(0)
    ELSE LET key == CHOOSE x \in keys : TRUE
         IN  ExactAdd(global_standard_aggregation_results[key][field],
                      SumOverPrices(keys \ {key}, field))

\* the standard map summed over the prices is the custom map
AgreeUpToPrice ==
    /\ {DropPrice(key) : key \in DOMAIN global_standard_aggregation_results}
           = DOMAIN global_custom_aggregation_results
    /\ \A pair \in DOMAIN global_custom_aggregation_results :
          LET priced == {key \in DOMAIN global_standard_aggregation_results :
                            DropPrice(key) = pair}
          IN  /\ global_custom_aggregation_results[pair].sqft_sum
                     = SumOverPrices(priced, "sqft_sum")
              /\ global_custom_aggregation_results[pair].amount_sum
                     = SumOverPrices(priced, "amount_sum")

\* C29 as stated: for tables with po, item, unit, sqft and amount of equal
\* length, the standard map summed over the prices of each (PO, Item) is
\* exactly the custom map, with the same keys once the price is dropped.
C29_AgreeUpToPrice ==
    (\A t \in BagToSet(folded) : FiveColumns(t)) => AgreeUpToPrice

\* C29 (amended): the same, when the absolute values of the quantities and
\* of the amounts of the tables each total less than 10^prec quanta, so that
\* no addition of either aggregator is rounded.
C29_AgreeUpToPriceWithinContext ==
    ((\A t \in BagToSet(folded) : FiveColumns(t)) /\ FitsContext(folded))
        => AgreeUpToPrice

\* one table with a padded PO and two prices for the same (PO, Item): two
\* keys in the standard map, one in the custom map with the sums of both
C29_Witness ==
    /\ folded = SetToBag({TableOf(<<PlainRow, PaddedRow>>)})
    /\ FitsContext(folded)
    /\ Cardinality(DOMAIN global_standard_aggregation_results) = 2
    /\ DOMAIN global_custom_aggregation_results = {<<StrCell(<<"A">>), StrCell(<<"X">>)>>}
    /\ \A pair \in DOMAIN global_custom_aggregation_results :
          global_custom_aggregation_results[pair]
              = [sqft_sum |-> NumCell(5), amount_sum |-> NumCell(2)]

\* the quantities 0.0006, -0.0001 and 10^24 under one (PO, Item): the
\* custom sum is rounded to 10^24, the standard sums add up to more
RoundedSumsDisagree ==
    /\ folded = SetToBag({TableOf(<<PlainRow, PaddedRow>>)})
                 (+) SetToBag({TableOf(<<BigRow>>)})
    /\ processed_data = TableOf(<<BigRow>>)
    /\ ~AgreeUpToPrice

\* ------------------------------------------------------------------------
\* add_table_to_sheet: the revisions of main.py, sheet_parser.py and
\* creating_table.py
\* ------------------------------------------------------------------------
\* the largest number of rows of a section of the table
MaxSectionRows == 2

\* n rows of two cells
TableRows(n) == [k \in 1..n |-> <<"x", "y">>]

\* a value of footer_config that should be a list of rows: a list, or None
ListValue(rows) == [is_list |-> TRUE, rows |-> rows]

NoneValue == [is_list |-> FALSE, rows |-> <<>>]

\* footer_config: the keywords, the columns to sum (a column number, or a
\* text where a number is expected), the rows before the totals (a list or
\* None) and the rows after them
FooterConfigs ==
    [keywords : {<<>>, <<"TOTAL:">>},
     calculate_cols : {<<>>, <<IntCell(2)>>, <<StrCell(<<"E">>)>>},
     pre_footer_rows : {NoneValue} \cup {ListValue(TableRows(n)) : n \in 0..1},
     static_rows : {TableRows(n) : n \in 0..1}]

StartRows == {1, 5}

\* "1 if footer_config.get('keywords') or footer_config.get('calculate_cols')
\* else 0"
NumMainFooterRows(footer_config) ==
    IF footer_config.keywords # <<>> \/ footer_config.calculate_cols # <<>>
    THEN 1 ELSE 0

\* total_table_rows, for a footer_config whose row lists are lists
TotalTableRows(table_header_rows, data_rows, footer_config) ==
    Len(table_header_rows) + Len(data_rows) + Len(footer_config.pre_footer_rows.rows)
    + NumMainFooterRows(footer_config) + Len(footer_config.static_rows)

\* len(None) raises TypeError while the rows are counted
CountRaises(footer_config) == ~footer_config.pre_footer_rows.is_list

\* "1 <= col_index <= num_header_cols" raises TypeError for a text
ColumnTestRaises(footer_config) ==
    \E k \in 1..Len(footer_config.calculate_cols) :
        footer_config.calculate_cols[k].t # "int"

\* "footer_row_content[0] = footer_keywords[0]" raises IndexError on a row
\* without columns
KeywordRaises(footer_config, num_header_cols) ==
    footer_config.keywords # <<>> /\ num_header_cols = 0

\* what a call did: the row it returned, the rows it inserted into the
\* sheet and whether the except clause was entered
Outcome(row, rows, error) == [returned |-> row, inserted |-> rows, raised |-> error]

\* the totals row of main.py and sheet_parser.py is written without error
FooterWritten(footer_config, num_header_cols) ==
    \/ NumMainFooterRows(footer_config) = 0
    \/ /\ ~KeywordRaises(footer_config, num_header_cols)
       /\ ~ColumnTestRaises(footer_config)

\* add_table_to_sheet of main.py (table_header_rows is its argument header_rows)
AddTableToSheetMain(start_row, table_header_rows, data_rows, footer_config) ==
    IF CountRaises(footer_config) THEN Outcome(start_row, 0, TRUE)
    ELSE LET total_table_rows == TotalTableRows(table_header_rows, data_rows, footer_config)
             num_header_cols == IF table_header_rows # <<>> THEN Len(table_header_rows[1])
                                ELSE IF data_rows # <<>> THEN Len(data_rows[1])
                                ELSE 0
         IN  IF total_table_rows <= 0 THEN Outcome(start_row, 0, FALSE)
             ELSE IF FooterWritten(footer_config, num_header_cols)
             THEN Outcome(start_row + total_table_rows, total_table_rows, FALSE)
             ELSE Outcome(start_row, total_table_rows, TRUE)

\* add_table_to_sheet of sheet_parser.py: the number of columns is taken
\* from the header only
AddTableToSheetParser(start_row, table_header_rows, data_rows, footer_config) ==
    IF CountRaises(footer_config) THEN Outcome(start_row, 0, TRUE)
    ELSE LET total_table_rows == TotalTableRows(table_header_rows, data_rows, footer_config)
             num_header_cols == IF table_header_rows # <<>> THEN Len(table_header_rows[1]) ELSE 0
         IN  IF total_table_rows <= 0 THEN Outcome(start_row, 0, FALSE)
             ELSE IF FooterWritten(footer_config, num_header_cols)
             THEN Outcome(start_row + total_table_rows, total_table_rows, FALSE)
             ELSE Outcome(start_row, total_table_rows, TRUE)

\* the except clause of creating_table.py returning start_row, as its
\* docstring says
AddTableToSheetCreatingAsDocumented(start_row, table_header_rows, data_rows, footer_config) ==
    IF CountRaises(footer_config) THEN Outcome(start_row, 0, TRUE)
    ELSE LET total_table_rows == TotalTableRows(table_header_rows, data_rows, footer_config)
         IN  IF total_table_rows <= 0 THEN Outcome(start_row, 0, FALSE)
             ELSE IF NumMainFooterRows(footer_config) > 0
                     /\ ColumnTestRaises(footer_config)
             THEN Outcome(start_row, total_table_rows, TRUE)
             ELSE Outcome(start_row + total_table_rows, total_table_rows, FALSE)

\* add_table_to_sheet of creating_table.py: the except clause returns
\* current_row, the row being written, or start_row + 1 when current_row is
\* not yet assigned
AddTableToSheetCreating(start_row, table_header_rows, data_rows, footer_config) ==
    IF CountRaises(footer_config) THEN Outcome(start_row + 1, 0, TRUE)
    ELSE LET total_table_rows == TotalTableRows(table_header_rows, data_rows, footer_config)
             main_footer_start_row == start_row + Len(table_header_rows) + Len(data_rows)
                                      + Len(footer_config.pre_footer_rows.rows)
         IN  IF total_table_rows <= 0 THEN Outcome(start_row, 0, FALSE)
             ELSE IF NumMainFooterRows(footer_config) > 0
                     /\ ColumnTestRaises(footer_config)
             THEN Outcome(main_footer_start_row, total_table_rows, TRUE)
             ELSE Outcome(start_row + total_table_rows, total_table_rows, FALSE)

InitTable ==
    /\ DistIdle
    /\ AggIdle
    /\ RunIdle
    /\ FobIdle
    /\ call_pc = "add_table_to_sheet"
    /\ \E start_row \in StartRows :
          \E h \in 0..MaxSectionRows :
             \E d \in 0..MaxSectionRows :
                \E footer_config \in FooterConfigs :
                   call_args = [start_row |-> start_row,
                                header_rows |-> TableRows(h),
                                data_rows |-> TableRows(d),
                                footer_config |-> footer_config]
    /\ call_result = <<>>

\* the call of the revision of main.py
AddTableMain ==
    /\ call_pc = "add_table_to_sheet"
    /\ call_result' = AddTableToSheetMain(call_args.start_row, call_args.header_rows,
                                          call_args.data_rows, call_args.footer_config)
    /\ call_pc' = "main.py returned"
    /\ UNCHANGED call_args
    /\ UNCHANGED <<distVars, aggVars, runVars, fobVars>>

\* the call of the revision of sheet_parser.py
AddTableParser ==
    /\ call_pc = "add_table_to_sheet"
    /\ call_result' = AddTableToSheetParser(call_args.start_row, call_args.header_rows,
                                            call_args.data_rows, call_args.footer_config)
    /\ call_pc' = "sheet_parser.py returned"
    /\ UNCHANGED call_args
    /\ UNCHANGED <<distVars, aggVars, runVars, fobVars>>

\* the call of the revision of creating_table.py
AddTableCreating ==
    /\ call_pc = "add_table_to_sheet"
    /\ call_result' = AddTableToSheetCreating(call_args.start_row, call_args.header_rows,
                                              call_args.data_rows, call_args.footer_config)
    /\ call_pc' = "creating_table.py returned"
    /\ UNCHANGED call_args
    /\ UNCHANGED <<distVars, aggVars, runVars, fobVars>>

NextTable == AddTableMain \/ AddTableParser \/ AddTableCreating

SpecTable == InitTable /\ [][NextTable]_vars

TableReturned ==
    call_pc \in {"main.py returned", "sheet_parser.py returned",
                 "creating_table.py returned"}

\* the rows of the table: header, data and pre-footer rows, one totals row
\* when keywords or calculate_cols are configured, and the static rows
RowsOfTable ==
    Len(call_args.header_rows) + Len(call_args.data_rows)
    + Len(call_args.footer_config.pre_footer_rows.rows)
    + (IF call_args.footer_config.keywords # <<>>
          \/ call_args.footer_config.calculate_cols # <<>> THEN 1 ELSE 0)
    + Len(call_args.footer_config.static_rows)

\* C30: in every revision add_table_to_sheet returns the row after the
\* inserted table, start_row plus the number of rows of the table, which is
\* the number of rows it inserted; it returns start_row when nothing is
\* inserted or when an error occurs.
C30_ReturnsRowAfterTable ==
    TableReturned =>
        IF call_result.raised \/ call_result.inserted = 0
        THEN call_result.returned = call_args.start_row
        ELSE /\ call_result.inserted = RowsOfTable
             /\ call_result.returned = call_args.start_row + RowsOfTable

\* the revisions of main.py and sheet_parser.py do as the claim says
DocumentedRevisionsReturnRowAfterTable ==
    call_pc \in {"main.py returned", "sheet_parser.py returned"} =>
        IF call_result.raised \/ call_result.inserted = 0
        THEN call_result.returned = call_args.start_row
        ELSE /\ call_result.inserted = RowsOfTable
             /\ call_result.returned = call_args.start_row + RowsOfTable

\* a header row, two data rows and a totals row inserted before row 5: the
\* call returns 9
TableInserted ==
    /\ call_pc = "main.py returned"
    /\ call_args.start_row = 5
    /\ Len(call_args.header_rows) = 1
    /\ Len(call_args.data_rows) = 2
    /\ call_args.footer_config = [keywords |-> <<"TOTAL:">>,
                                  calculate_cols |-> <<IntCell(2)>>,
                                  pre_footer_rows |-> ListValue(<<>>),
                                  static_rows |-> <<>>]
    /\ call_result = Outcome(9, 4, FALSE)

\* creating_table.py, pre_footer_rows None: nothing is inserted and the call
\* returns 6 for start_row 5
ErrorReturnsNextRow ==
    /\ call_pc = "creating_table.py returned"
    /\ call_args.start_row = 5
    /\ call_args.footer_config.pre_footer_rows = NoneValue
    /\ call_result = Outcome(6, 0, TRUE)

=============================================================================
